---- MODULE Spec2Model ----
(***************************************************************************)
(* The fraud risk-scoring engine of ml-service/fraud: feature extraction   *)
(* (FraudFeatureExtractor and the predictor's basic extractor), the        *)
(* FraudPredictor state (model reference, model_loaded, config), its       *)
(* model-based and rule-based prediction paths, risk score, risk level and *)
(* recommended action, and predict_batch.                                  *)
(* Further: the AnomalyDetector (train, detect, explain_anomaly,           *)
(* calculate_risk_level, update_model) and the FraudModelTrainer (model    *)
(* artifact, train, train_all_models, prepare_training_data).              *)
(*                                                                         *)
(* Units.  Money is counted in cents (999.99 is 99999).  A probability is  *)
(* counted in percent (0..100 stands for 0.0..1.0), so the rule score s    *)
(* gives probability min(s, 100).  A risk score is counted in 1/100 of a   *)
(* point (0..10000 stands for 0..100), which keeps the multipliers 1.1,    *)
(* 1.2 and 1.3 exact.  A ratio (amount deviation, failure rate, velocity   *)
(* per hour) is a pair num/den with den > 0.                               *)
(*                                                                         *)
(* A Python dict is a function whose DOMAIN is the set of keys present;    *)
(* d.get(k, default) is Get(d, k, default).  A Python bool is 1 or 0       *)
(* (True == 1 holds in Python).  A call that raises yields [ok |-> FALSE,  *)
(* val |-> <the exception>], one that returns [ok |-> TRUE, val |-> ...].  *)
(*                                                                         *)
(* Left out of the feature vector, because no decision of the predictor    *)
(* reads them: amount_log, the payment-method and device one-hots, the     *)
(* calendar fields other than the hour, std_transaction_amount and         *)
(* avg_time_between_transactions.                                          *)
(***************************************************************************)
EXTENDS Integers, Sequences, FiniteSets, TLC

VARIABLES
    config,             \* FraudPredictor.config
    feature_extractor,  \* FraudPredictor.feature_extractor: "FraudFeatureExtractor" or "None"
    model,              \* FraudPredictor.model: the unpickled object, or "None"
    model_loaded,       \* FraudPredictor.model_loaded
    model_path,         \* FraudPredictor.model_path ("unset" until a load succeeds)
    files,              \* the file system: path -> content
    lastLoad,           \* history variable: outcome of the most recent load attempt
    request,            \* the caller's list of transactions, as assembled so far
    call,               \* the last call on the predictor: operation, inputs, outcome
    predicting,         \* the frame of a predict call in flight on another thread
    loading,            \* the frame of a load_model call in flight on another thread
    trainer,            \* FraudModelTrainer: config, models, best_model
    artifact,           \* the content of the trainer's model file
    detector,           \* AnomalyDetector: contamination, model, scaler, is_fitted, ...
    completed_trains,   \* history variable: the arrays of the train calls that returned
    fraud_trainer,      \* FraudModelTrainer while training: feature_extractor, models, best_model
    model_store         \* the model files the trainer writes: path -> pickled content

vars == <<config, feature_extractor, model, model_loaded, model_path,
          files, lastLoad, request, call, predicting, loading, trainer, artifact,
          detector, completed_trains, fraud_trainer, model_store>>

predictorVars == <<config, feature_extractor, model, model_loaded, model_path>>

threadVars == <<predicting, loading>>

trainerVars == <<trainer, artifact>>

detectorVars == <<detector, completed_trains>>

trainingVars == <<fraud_trainer, model_store>>

-----------------------------------------------------------------------------
(* Bounds of the model *)

\* longest transaction list handed to predict_batch
MaxBatch == 3

-----------------------------------------------------------------------------
(* Python values *)

Get(d, k, default) == IF k \in DOMAIN d THEN d[k] ELSE default

\* d.update(e): the keys of e win
Update(d, e) == e @@ d

EmptyDict == <<>>

Ok(v) == [ok |-> TRUE, val |-> v]

Raise(e) == [ok |-> FALSE, val |-> e]

Rat(n, d) == [num |-> n, den |-> d]

\* r > n/d, for den, d > 0
RatGt(r, n, d) == r.num * d > n * r.den

\* r <= n/d
RatLe(r, n, d) == ~RatGt(r, n, d)

Min(a, b) == IF a <= b THEN a ELSE b

RECURSIVE SumSeq(_)
SumSeq(s) == IF s = <<>> THEN 0 ELSE Head(s) + SumSeq(Tail(s))

\* [x for x in s if P(x)] is SelectSeq(s, P)

\* A timestamp value: a number (epoch seconds; only its local hour matters),
\* an ISO-8601 string, or a string that is no date.
Epoch(h) == [kind |-> "epoch", hour |-> h]

IsoString(h) == [kind |-> "iso", hour |-> h]

TextString == [kind |-> "text", hour |-> 0]

-----------------------------------------------------------------------------
(* FraudFeatureExtractor *)

_extract_transaction_features(transaction) ==
    [transaction_amount |-> Get(transaction, "amount", 0),
     is_first_transaction |-> Get(transaction, "is_first", 0),
     transaction_count_today |-> Get(transaction, "daily_count", 0)]

\* A history record's timestamp is kept as seconds relative to now (negative:
\* in the past); a record without one counts as epoch 0, older than any window.
InWindow(t, seconds) == "timestamp" \in DOMAIN t /\ t["timestamp"] > 0 - seconds

HasAmount(t) == "amount" \in DOMAIN t

AmountOf(t) == t["amount"]

IsFailed(t) == Get(t, "status", "") = "failed"

LastHour(t) == InWindow(t, 3600)

LastDay(t) == InWindow(t, 86400)

RECURSIVE MapAmount(_)
MapAmount(s) == IF s = <<>> THEN <<>> ELSE <<AmountOf(Head(s))>> \o MapAmount(Tail(s))

\* pandas: df['amount'] raises KeyError when no record has the key; mean()
\* skips the records without it.
_extract_user_behavior_features(transaction, history) ==
    IF history = <<>> THEN Ok(EmptyDict)
    ELSE IF \A i \in DOMAIN history : ~HasAmount(history[i])
    THEN Raise("KeyError: 'amount'")
    ELSE IF \A i \in DOMAIN history : "status" \notin DOMAIN history[i]
    THEN Raise("KeyError: 'status'")
    ELSE
    LET amounts == MapAmount(SelectSeq(history, HasAmount))
        total == SumSeq(amounts)
        current_amount == Get(transaction, "amount", 0)
        recent_hour == SelectSeq(history, LastHour)
        recent_day == SelectSeq(history, LastDay)
    IN Ok([avg_transaction_amount |-> Rat(total, Len(amounts)),
           total_transaction_count |-> Len(history),
           amount_deviation_ratio |->
               IF total > 0 THEN Rat(current_amount * Len(amounts), total)
               ELSE Rat(10, 1),
           previous_failure_rate |-> Rat(Len(SelectSeq(history, IsFailed)), Len(history)),
           transactions_last_hour |-> Len(recent_hour),
           transactions_last_24h |-> Len(recent_day),
           hourly_velocity |-> Rat(Len(recent_hour), 1),
           daily_velocity |-> Rat(Len(recent_day), 24)])

\* datetime.fromtimestamp(timestamp) raises TypeError on a string
_extract_temporal_features(transaction, now) ==
    LET timestamp == Get(transaction, "timestamp", now)
    IN IF timestamp.kind # "epoch" THEN Raise("TypeError: timestamp")
       ELSE Ok([hour_of_day |-> timestamp.hour,
                is_night_hours |-> IF 0 <= timestamp.hour /\ timestamp.hour < 6 THEN 1 ELSE 0,
                is_business_hours |-> IF 9 <= timestamp.hour /\ timestamp.hour < 17 THEN 1 ELSE 0])

\* An address string is kept as the parts between its dots, so that
\* ip_address.split('.') is the value itself: "203.0.113.7" is
\* <<"203", "0", "113", "7">>, "2001:db8::1" is <<"2001:db8::1">>, '' is <<"">>.
NoAddress == <<"">>

\* int(hashlib.md5(ip_address.encode()).hexdigest()[:8], 16) % 10000
Md5Bucket(ip_address) ==
    CASE ip_address = <<"203", "0", "113", "7">> -> 9147
      [] ip_address = <<"10", "0", "0", "1">> -> 7339
      [] ip_address = <<"2001:db8::1">> -> 6383
      [] ip_address = <<"::ffff:203", "0", "113", "7">> -> 9624
      [] ip_address = <<"localhost">> -> 3470

\* '.'.join(ip_address.split('.')[:2])
IpPrefix(ip_address) == SubSeq(ip_address, 1, Min(2, Len(ip_address)))

\* lines 142-148: the address-based features, for a non-empty address
IpFeatures(transaction) ==
    LET ip_address == Get(transaction, "ip_address", NoAddress)
    IN IF ip_address # NoAddress
       THEN [ip_prefix |-> IpPrefix(ip_address), ip_hash |-> Md5Bucket(ip_address)]
       ELSE EmptyDict

\* mutant: a session of exactly 60 seconds counted as short
TechnicalFeaturesInclusive(transaction) ==
    LET session_duration == Get(transaction, "session_duration", 0)
    IN Update(IpFeatures(transaction),
              [session_duration |-> session_duration,
               short_session |-> IF session_duration <= 60 THEN 1 ELSE 0])

_extract_technical_features(transaction) ==
    LET session_duration == Get(transaction, "session_duration", 0)
    IN Update(IpFeatures(transaction),
              [session_duration |-> session_duration,
               short_session |-> IF session_duration < 60 THEN 1 ELSE 0])

\* The six trigger flags and their weighted sum.  firstTriggers is the test the
\* caller makes of is_first_transaction (its truth in one extractor, == 1 in
\* the other).
DerivedFrom(features, firstTriggers) ==
    LET high_amount_deviation ==
            IF RatGt(Get(features, "amount_deviation_ratio", Rat(1, 1)), 3, 1) THEN 1 ELSE 0
        high_hourly_velocity ==
            IF RatGt(Get(features, "hourly_velocity", Rat(0, 1)), 5, 1) THEN 1 ELSE 0
        night_transaction == IF Get(features, "is_night_hours", 0) = 1 THEN 1 ELSE 0
        short_session_flag == IF Get(features, "short_session", 0) = 1 THEN 1 ELSE 0
        high_failure_history ==
            IF RatGt(Get(features, "previous_failure_rate", Rat(0, 1)), 3, 10) THEN 1 ELSE 0
        new_user_high_amount ==
            IF firstTriggers /\ Get(features, "transaction_amount", 0) > 10000 THEN 1 ELSE 0
        risk_score == 30 * high_amount_deviation + 25 * high_hourly_velocity
                      + 15 * night_transaction + 20 * short_session_flag
                      + 25 * high_failure_history + 35 * new_user_high_amount
    IN [high_amount_deviation |-> high_amount_deviation,
        high_hourly_velocity |-> high_hourly_velocity,
        night_transaction |-> night_transaction,
        short_session_flag |-> short_session_flag,
        high_failure_history |-> high_failure_history,
        new_user_high_amount |-> new_user_high_amount,
        composite_risk_score |-> Min(risk_score, 100)]

\* mutant: the new-user rule never triggers
DerivedWithoutNewUserRule(features) == DerivedFrom(features, FALSE)

_calculate_derived_features(features) ==
    DerivedFrom(features, Get(features, "is_first_transaction", 0) # 0)

extract_features(transaction_data, user_history, now) ==
    LET f1 == _extract_transaction_features(transaction_data)
        behaviour == IF user_history # <<>>
                     THEN _extract_user_behavior_features(transaction_data, user_history)
                     ELSE Ok(EmptyDict)
        temporal == _extract_temporal_features(transaction_data, now)
    IN IF ~behaviour.ok THEN behaviour
       ELSE IF ~temporal.ok THEN temporal
       ELSE LET f4 == Update(Update(Update(f1, behaviour.val), temporal.val),
                             _extract_technical_features(transaction_data))
            IN Ok(Update(f4, _calculate_derived_features(f4)))

-----------------------------------------------------------------------------
(* FraudPredictor: the basic extractor, used when feature_extractor is None *)

IsTruthyAmount(t) == Get(t, "amount", 0) # 0

\* A string timestamp is parsed with fromisoformat; when that fails the handler
\* sets dt only, and fromtimestamp then receives the string and raises.
BasicTimestamp(transaction, now) ==
    LET timestamp == Get(transaction, "timestamp", now)
    IN IF timestamp.kind = "text" THEN Raise("TypeError: timestamp")
       ELSE Ok(Epoch(timestamp.hour))

BasicHistoryFeatures(transaction, history) ==
    IF history # <<>>
    THEN LET amounts == MapAmount(SelectSeq(history, IsTruthyAmount))
             total == SumSeq(amounts)
             current_amount == Get(transaction, "amount", 0)
             recent_hour == SelectSeq(history, LastHour)
             recent_day == SelectSeq(history, LastDay)
             counted == [total_transaction_count |-> Len(history),
                         amount_deviation_ratio |->
                             IF amounts # <<>> /\ total > 0
                             THEN Rat(current_amount * Len(amounts), total)
                             ELSE Rat(10, 1),
                         transactions_last_hour |-> Len(recent_hour),
                         transactions_last_24h |-> Len(recent_day),
                         hourly_velocity |-> Rat(Len(recent_hour), 1),
                         daily_velocity |-> Rat(Len(recent_day), 24),
                         previous_failure_rate |->
                             Rat(Len(SelectSeq(history, IsFailed)), Len(history))]
         IN IF amounts # <<>>
            THEN Update(counted, [avg_transaction_amount |-> Rat(total, Len(amounts))])
            ELSE counted
    ELSE [is_first_transaction |-> 1,
          total_transaction_count |-> 0,
          amount_deviation_ratio |-> Rat(10, 1),
          transactions_last_hour |-> 0,
          transactions_last_24h |-> 0,
          hourly_velocity |-> Rat(0, 1),
          daily_velocity |-> Rat(0, 24),
          previous_failure_rate |-> Rat(0, 1)]

_extract_basic_features(transaction, history, now) ==
    LET ts == BasicTimestamp(transaction, now)
    IN IF ~ts.ok THEN ts
       ELSE
       LET session_duration == Get(transaction, "session_duration", 0)
           base == [transaction_amount |-> Get(transaction, "amount", 0),
                    hour_of_day |-> ts.val.hour,
                    is_night_hours |-> IF 0 <= ts.val.hour /\ ts.val.hour < 6 THEN 1 ELSE 0,
                    session_duration |-> session_duration,
                    short_session |-> IF session_duration < 60 THEN 1 ELSE 0]
           features == Update(base, BasicHistoryFeatures(transaction, history))
       IN Ok(Update(features,
                    DerivedFrom(features, Get(features, "is_first_transaction", 0) = 1)))

-----------------------------------------------------------------------------
(* The objects a model file can unpickle to, and what predict asks of them *)

\* a fitted classifier with predict_proba; a fitted classifier with predict
\* only; a classifier fitted on other columns, whose inference raises; the dict
\* FraudModelTrainer._save_model writes; an object that is false in Python
ModelObjects ==
    {"RandomForestClassifier", "LinearSVC", "StaleClassifier", "TrainerArtifact", "EmptyObject"}

Truthy(m) == m \notin {"None", "EmptyObject"}

HasPredictProba(m) == m \in {"RandomForestClassifier", "StaleClassifier"}

ExpectedColumns ==
    {"transaction_amount", "amount_log", "hour_of_day", "day_of_week",
     "is_weekend", "is_night_hours", "session_duration", "short_session",
     "total_transaction_count", "amount_deviation_ratio", "hourly_velocity",
     "previous_failure_rate", "composite_risk_score"}

_ensure_feature_columns(features) ==
    [k \in DOMAIN features \cup ExpectedColumns |-> Get(features, k, 0)]

\* model.predict_proba(feature_df)[0][1], in percent.  The fitted forest is a
\* fixed function of the row; here it scores the row by its composite column.
ModelPredictProba(m, row) ==
    IF ~HasPredictProba(m) THEN Raise("AttributeError: predict_proba")
    ELSE IF m = "StaleClassifier" THEN Raise("ValueError: feature mismatch")
    ELSE Ok(row["composite_risk_score"])

\* model.predict(feature_df)[0]: the dict of the trainer has no predict
ModelPredict(m, row) ==
    IF m \in {"LinearSVC", "RandomForestClassifier"}
    THEN Ok(IF row["composite_risk_score"] >= 50 THEN 1 ELSE 0)
    ELSE IF m = "StaleClassifier" THEN Raise("ValueError: feature mismatch")
    ELSE Raise("AttributeError: predict")

-----------------------------------------------------------------------------
(* FraudPredictor: prediction *)

HasThreshold == "threshold" \in DOMAIN config

MeetsThreshold(probability) == probability >= config["threshold"]

\* the six rules, in the order of the code; rule 5 adds newUserWeight
RuleFactorsWith(features, newUserWeight) ==
    LET amount_deviation == Get(features, "amount_deviation_ratio", Rat(1, 1))
        hourly_velocity == Get(features, "hourly_velocity", Rat(0, 1))
        failure_rate == Get(features, "previous_failure_rate", Rat(0, 1))
    IN  (IF RatGt(amount_deviation, 5, 1)
           THEN <<[tag |-> "EXTREME_AMOUNT_DEVIATION", weight |-> 40]>>
         ELSE IF RatGt(amount_deviation, 3, 1)
           THEN <<[tag |-> "HIGH_AMOUNT_DEVIATION", weight |-> 25]>>
         ELSE <<>>)
     \o (IF RatGt(hourly_velocity, 10, 1)
           THEN <<[tag |-> "EXTREME_TRANSACTION_VELOCITY", weight |-> 35]>>
         ELSE IF RatGt(hourly_velocity, 5, 1)
           THEN <<[tag |-> "HIGH_TRANSACTION_VELOCITY", weight |-> 20]>>
         ELSE <<>>)
     \o (IF Get(features, "is_night_hours", 0) = 1
           THEN <<[tag |-> "NIGHT_TRANSACTION", weight |-> 15]>>
         ELSE <<>>)
     \o (IF Get(features, "short_session", 0) = 1
           THEN <<[tag |-> "SHORT_SESSION", weight |-> 20]>>
         ELSE <<>>)
     \o (IF Get(features, "is_first_transaction", 0) # 0
            /\ Get(features, "transaction_amount", 0) > 10000
           THEN <<[tag |-> "NEW_USER_HIGH_AMOUNT", weight |-> newUserWeight]>>
         ELSE <<>>)
     \o (IF RatGt(failure_rate, 1, 2)
           THEN <<[tag |-> "HIGH_FAILURE_HISTORY", weight |-> 25]>>
         ELSE <<>>)

\* mutant: rule 5 with the weight the composite score gives it (35)
RuleFactorsCompositeWeight(features) == RuleFactorsWith(features, 35)

RuleFactors(features) == RuleFactorsWith(features, 30)

RECURSIVE SumWeights(_)
SumWeights(s) == IF s = <<>> THEN 0 ELSE Head(s).weight + SumWeights(Tail(s))

Tags(s) == [i \in DOMAIN s |-> s[i].tag]

\* mutant: the cap of line 328 forgotten
RuleProbabilityUncapped(risk_score) == risk_score

RuleProbability(risk_score) == Min(risk_score, 100)

\* returns (is_fraud, probability, explanation); config['threshold'] raises
\* KeyError when the config has no such entry
_rule_based_prediction(features) ==
    LET fired == RuleFactors(features)
        risk_score == SumWeights(fired)
        probability == RuleProbability(risk_score)
    IN IF ~HasThreshold THEN Raise("KeyError: 'threshold'")
       ELSE Ok([is_fraud |-> MeetsThreshold(probability),
                probability |-> probability,
                explanation |-> [method |-> "rule_based",
                                 risk_factors |-> Tags(fired),
                                 risk_score |-> risk_score,
                                 rules_applied |-> Len(fired),
                                 confidence |-> probability]])

ExplainFactors(features) ==
    LET Flag(k) == Get(features, k, 0) = 1
    IN  (IF Flag("high_amount_deviation")
           THEN <<[tag |-> "HIGH_AMOUNT_DEVIATION", weight |-> 30,
                   factor |-> <<"Amount is {}x higher than user's average",
                                Get(features, "amount_deviation_ratio", Rat(1, 1))>>]>>
         ELSE <<>>)
     \o (IF Flag("high_hourly_velocity")
           THEN <<[tag |-> "HIGH_TRANSACTION_VELOCITY", weight |-> 25,
                   factor |-> <<"High transaction frequency ({}/hour)",
                                Get(features, "hourly_velocity", Rat(0, 1))>>]>>
         ELSE <<>>)
     \o (IF Flag("night_transaction")
           THEN <<[tag |-> "NIGHT_TRANSACTION", weight |-> 15,
                   factor |-> <<"Transaction occurred during unusual hours ({}:00)",
                                Get(features, "hour_of_day", 0)>>]>>
         ELSE <<>>)
     \o (IF Flag("short_session_flag")
           THEN <<[tag |-> "SHORT_SESSION", weight |-> 20,
                   factor |-> <<"Very short session duration ({}s)",
                                Get(features, "session_duration", 0)>>]>>
         ELSE <<>>)
     \o (IF Flag("high_failure_history")
           THEN <<[tag |-> "HIGH_FAILURE_HISTORY", weight |-> 25,
                   factor |-> <<"High previous failure rate ({})",
                                Get(features, "previous_failure_rate", Rat(0, 1))>>]>>
         ELSE <<>>)
     \o (IF Flag("new_user_high_amount")
           THEN <<[tag |-> "NEW_USER_HIGH_AMOUNT", weight |-> 35,
                   factor |-> <<"New user with high amount (${})",
                                Get(features, "transaction_amount", 0)>>]>>
         ELSE <<>>)
     \o (IF Flag("device_anomaly")
           THEN <<[tag |-> "DEVICE_ANOMALY", weight |-> 20,
                   factor |-> <<"Unusual device or location pattern", 0>>]>>
         ELSE <<>>)

\* probability is in percent; "if probability" is false for 0
explain_prediction(features, probability) ==
    LET fired == ExplainFactors(features)
        total_contribution == SumWeights(fired)
        explanation ==
            [factors |-> [i \in DOMAIN fired |-> fired[i].factor],
             contributions |-> [i \in DOMAIN fired |-> Rat(fired[i].weight * 100, total_contribution)],
             risk_factors |-> Tags(fired),
             confidence |-> probability]
    IN IF probability # 0
       THEN Update(explanation,
                   [summary |-> IF probability >= 90 THEN "Very high fraud risk"
                                ELSE IF probability >= 70 THEN "High fraud risk"
                                ELSE IF probability >= 50 THEN "Moderate fraud risk"
                                ELSE "Low fraud risk"])
       ELSE explanation

\* The model branch of predict, with hasattr evaluated on the object checked
\* and the inference called on the object invoked (two reads of self.model):
\* Ok(result), or the exception it raises.
ModelBranchOn(checked, invoked, features) ==
    LET row == _ensure_feature_columns(features)
        inferred == IF HasPredictProba(checked) THEN ModelPredictProba(invoked, row)
                    ELSE LET prediction == ModelPredict(invoked, row)
                         IN IF prediction.ok
                            THEN Ok(IF prediction.val = 1 THEN 100 ELSE 0)
                            ELSE prediction
    IN IF ~inferred.ok THEN inferred
       ELSE IF ~HasThreshold THEN Raise("KeyError: 'threshold'")
       ELSE Ok([is_fraud |-> MeetsThreshold(inferred.val),
                probability |-> inferred.val,
                explanation |-> explain_prediction(features, inferred.val)])

\* in one thread both reads give the model held
ModelBranch(features) == ModelBranchOn(model, model, features)

\* which path a predict call takes: "model", "rule" (no usable model), or
\* "fallback" (the model branch raised and the handler re-ran the rules)
PredictPath(features) ==
    IF model_loaded /\ Truthy(model)
    THEN IF ModelBranch(features).ok THEN "model" ELSE "fallback"
    ELSE "rule"

\* mutant: no exception handler around the model branch
PredictUnhandled(features) ==
    IF model_loaded /\ Truthy(model) THEN ModelBranch(features)
    ELSE _rule_based_prediction(features)

predict(features) ==
    IF PredictPath(features) = "model" THEN ModelBranch(features)
    ELSE _rule_based_prediction(features)

\* mutant: the two amount tests in the other order, so 1.2 is never applied
RiskScoreTestsSwapped(features, probability) ==
    LET base_score == probability * 100
        amount == Get(features, "transaction_amount", 0)
        by_amount == IF amount > 50000 THEN (base_score * 11) \div 10
                     ELSE IF amount > 100000 THEN (base_score * 12) \div 10
                     ELSE base_score
        by_history == IF Get(features, "is_first_transaction", 0) = 1
                      THEN (by_amount * 13) \div 10
                      ELSE by_amount
    IN Min(by_history, 10000)

\* in 1/100 of a point
_calculate_risk_score(features, probability) ==
    LET base_score == probability * 100
        amount == Get(features, "transaction_amount", 0)
        by_amount == IF amount > 100000 THEN (base_score * 12) \div 10
                     ELSE IF amount > 50000 THEN (base_score * 11) \div 10
                     ELSE base_score
        by_history == IF Get(features, "is_first_transaction", 0) = 1
                      THEN (by_amount * 13) \div 10
                      ELSE by_amount
    IN Min(by_history, 10000)

_determine_risk_level(risk_score) ==
    IF risk_score >= 9000 THEN "CRITICAL"
    ELSE IF risk_score >= 7000 THEN "HIGH"
    ELSE IF risk_score >= 3000 THEN "MEDIUM"
    ELSE "LOW"

\* mutant: the risk level decides alone, is_fraud or CRITICAL giving BLOCK only
\* when both hold
ActionNeedsBoth(is_fraud, risk_level) ==
    IF is_fraud /\ risk_level = "CRITICAL"
    THEN [action |-> "BLOCK", reason |-> "High fraud probability",
          steps |-> <<"Block transaction", "Flag account", "Notify security team">>]
    ELSE IF risk_level \in {"HIGH", "CRITICAL"}
    THEN [action |-> "REVIEW", reason |-> "Suspicious activity detected",
          steps |-> <<"Require additional verification", "Review manually", "Monitor account">>]
    ELSE IF risk_level = "MEDIUM"
    THEN [action |-> "MONITOR", reason |-> "Moderate risk detected",
          steps |-> <<"Allow transaction", "Monitor for patterns", "Update risk profile">>]
    ELSE [action |-> "ALLOW", reason |-> "Low risk transaction",
          steps |-> <<"Process normally">>]

_get_recommended_action(is_fraud, risk_level) ==
    IF is_fraud \/ risk_level = "CRITICAL"
    THEN [action |-> "BLOCK", reason |-> "High fraud probability",
          steps |-> <<"Block transaction", "Flag account", "Notify security team">>]
    ELSE IF risk_level = "HIGH"
    THEN [action |-> "REVIEW", reason |-> "Suspicious activity detected",
          steps |-> <<"Require additional verification", "Review manually", "Monitor account">>]
    ELSE IF risk_level = "MEDIUM"
    THEN [action |-> "MONITOR", reason |-> "Moderate risk detected",
          steps |-> <<"Allow transaction", "Monitor for patterns", "Update risk profile">>]
    ELSE [action |-> "ALLOW", reason |-> "Low risk transaction",
          steps |-> <<"Process normally">>]

\* No feature name the extractors produce contains one of the patterns
\* password, token, secret, key, cvv, pin, and no feature value is a dict or
\* a list (ip_prefix is a string).
SensitiveFeatureNames == {}

_sanitize_features(features) ==
    [k \in DOMAIN features |->
        IF k \in SensitiveFeatureNames THEN "[REDACTED]" ELSE features[k]]

-----------------------------------------------------------------------------
(* FraudPredictor.predict_batch *)

None == "None"

\* f'txn_{i}', with i counted from 0
DefaultTransactionId(i) == "txn_" \o ToString(i - 1)

HistoryFor(transaction, user_history) ==
    LET user_id == Get(transaction, "user_id", None)
    IN IF user_history # EmptyDict /\ user_id # None /\ user_id \in DOMAIN user_history
       THEN user_history[user_id]
       ELSE <<>>

\* mutant: a transaction without 'amount' rejected instead of defaulted to 0
ExtractForRequiringAmount(transaction, history, now) ==
    IF "amount" \notin DOMAIN transaction THEN Raise("KeyError: 'amount'")
    ELSE IF feature_extractor # "None"
    THEN extract_features(transaction, history, now)
    ELSE _extract_basic_features(transaction, history, now)

ExtractFor(transaction, history, now) ==
    IF feature_extractor # "None"
    THEN extract_features(transaction, history, now)
    ELSE _extract_basic_features(transaction, history, now)

ErrorEntry(i, transaction, e) ==
    [transaction_id |-> Get(transaction, "id", DefaultTransactionId(i)),
     error |-> e,
     success |-> FALSE]

\* One pass of the loop body, for the transaction at position i (from 1).
\* The anomaly-detection block adds nothing: the predictor's AnomalyDetector
\* is never trained, so detect raises and the bare except swallows it.
ScoreItem(i, transaction, user_history, now) ==
    LET extracted == ExtractFor(transaction, HistoryFor(transaction, user_history), now)
    IN IF ~extracted.ok THEN ErrorEntry(i, transaction, extracted.val)
       ELSE
       LET features == extracted.val
           predicted == predict(features)
       IN IF ~predicted.ok THEN ErrorEntry(i, transaction, predicted.val)
          ELSE
          LET probability == predicted.val.probability
              risk_score == _calculate_risk_score(features, probability)
              risk_level == _determine_risk_level(risk_score)
          IN [transaction_id |-> Get(transaction, "id", DefaultTransactionId(i)),
              user_id |-> Get(transaction, "user_id", None),
              amount |-> Get(transaction, "amount", None),
              timestamp |-> Get(transaction, "timestamp", IsoString(now.hour)),
              prediction |-> [is_fraud |-> predicted.val.is_fraud,
                              probability |-> probability,
                              confidence |-> Min(probability, 100)],
              risk_assessment |-> [score |-> risk_score,
                                   level |-> risk_level,
                                   factors |-> predicted.val.explanation.risk_factors],
              explanation |-> predicted.val.explanation,
              recommended_action |->
                  _get_recommended_action(predicted.val.is_fraud, risk_level),
              features |-> _sanitize_features(features)]

\* mutant: a failed item leaves no entry
PredictBatchSkippingFailures(transactions, user_history, now) ==
    LET Succeeded(entry) == "error" \notin DOMAIN entry
    IN SelectSeq([i \in 1..Len(transactions) |->
                     ScoreItem(i, transactions[i], user_history, now)], Succeeded)

\* mutant: the transactions of the batch already scored count as history of
\* their users
PredictBatchAccumulating(transactions, user_history, now) ==
    LET UserOf(t) == IF "user_id" \in DOMAIN t THEN t["user_id"] ELSE "None"
        Seen(i, u) == LET OfUser(t) == UserOf(t) = u
                      IN SelectSeq(SubSeq(transactions, 1, i - 1), OfUser)
        Users(i) == DOMAIN user_history \cup {UserOf(transactions[k]) : k \in 1..(i - 1)}
        HistoryAt(i) ==
            [u \in Users(i) |->
                (IF u \in DOMAIN user_history THEN user_history[u] ELSE <<>>)
                \o [k \in 1..Len(Seen(i, u)) |->
                       [amount |-> IF "amount" \in DOMAIN Seen(i, u)[k]
                                   THEN Seen(i, u)[k]["amount"] ELSE 0,
                        status |-> "completed", timestamp |-> -1]]]
    IN [i \in 1..Len(transactions) |-> ScoreItem(i, transactions[i], HistoryAt(i), now)]

predict_batch(transactions, user_history, now) ==
    [i \in 1..Len(transactions) |-> ScoreItem(i, transactions[i], user_history, now)]

-----------------------------------------------------------------------------
(* FraudPredictor: construction, load_model, save_model, get_model_info *)

Paths == {"models/fraud_model.pkl"}

FileContents == {"missing", "corrupt"} \cup ModelObjects

DefaultConfig ==
    [threshold |-> 80,
     risk_categories |-> [LOW |-> 0, MEDIUM |-> 30, HIGH |-> 70, CRITICAL |-> 90],
     feature_config |-> [include_user_history |-> TRUE,
                         include_temporal_features |-> TRUE,
                         include_device_features |-> TRUE]]

\* the config argument of the constructor: None, {}, or a dict with some of
\* the recognised entries
ConfigArgs ==
    {[given |-> FALSE, dict |-> EmptyDict],
     [given |-> TRUE, dict |-> EmptyDict],
     [given |-> TRUE, dict |-> [threshold |-> 50]],
     [given |-> TRUE, dict |-> [risk_categories |-> [LOW |-> 0, MEDIUM |-> 30,
                                                     HIGH |-> 70, CRITICAL |-> 90]]]}

\* self.config = config or {...}
ConfigOr(arg) == IF arg.given /\ arg.dict # EmptyDict THEN arg.dict ELSE DefaultConfig

\* pickle.load succeeds on a file that holds a pickled object
Unpickles(content) == content \in ModelObjects

\* mutant: a failed load leaves the flag set while a model is still held
LoadResultKeepingFlag(content, path, oldModel, oldPath) ==
    IF Unpickles(content)
    THEN [model |-> content, model_loaded |-> TRUE, model_path |-> path, ret |-> TRUE]
    ELSE [model |-> oldModel, model_loaded |-> oldModel # "None",
          model_path |-> oldPath, ret |-> FALSE]

\* the fields load_model leaves, and its return value
LoadResult(content, path, oldModel, oldPath) ==
    IF Unpickles(content)
    THEN [model |-> content, model_loaded |-> TRUE, model_path |-> path, ret |-> TRUE]
    ELSE [model |-> oldModel, model_loaded |-> FALSE, model_path |-> oldPath, ret |-> FALSE]

DirName(path) == IF path = "models/fraud_model.pkl" THEN "models" ELSE ""

\* save_model returns True when it wrote the file: it needs a model that is
\* true in Python, and os.makedirs(dirname) raises on an empty dirname
SaveSucceeds(path) == Truthy(model) /\ DirName(path) # ""

\* config['threshold'] raises KeyError when the config has no such entry
get_model_info ==
    IF ~HasThreshold THEN Raise("KeyError: 'threshold'")
    ELSE IF ~model_loaded
    THEN Ok([model_loaded |-> FALSE, method |-> "rule_based",
             threshold |-> config["threshold"]])
    ELSE Ok([model_loaded |-> TRUE, model_path |-> model_path,
             model_type |-> IF Truthy(model) THEN model ELSE "unknown",
             threshold |-> config["threshold"],
             feature_extractor_available |-> feature_extractor # "None",
             anomaly_detector_available |-> TRUE])

-----------------------------------------------------------------------------
(* The inputs the callers supply *)

OldRecord(a, s) == [amount |-> a, status |-> s, timestamp |-> -200000]

RecentRecord(a, s) == [amount |-> a, status |-> s, timestamp |-> -600]

\* user_id -> history list, as handed to predict_batch.  u_new has no entry.
\*   u_reg:   3 old completed payments of 100.00
\*   u_calm:  10 payments of 100.00, one of them failed, one in the last hour
\*   u_fast:  6 payments of 100.00 in the last hour, 2 failed
\*   u_burst: 11 payments of 100.00 in the last hour, 6 failed
\*   u_nokey: one record without an amount
Histories ==
    [u_reg |-> [i \in 1..3 |-> OldRecord(10000, "completed")],
     u_calm |-> [i \in 1..10 |->
                    IF i = 1 THEN OldRecord(10000, "failed")
                    ELSE IF i = 10 THEN RecentRecord(10000, "completed")
                    ELSE OldRecord(10000, "completed")],
     u_fast |-> [i \in 1..6 |-> RecentRecord(10000, IF i <= 2 THEN "failed" ELSE "completed")],
     u_burst |-> [i \in 1..11 |-> RecentRecord(10000, IF i <= 6 THEN "failed" ELSE "completed")],
     u_nokey |-> <<[status |-> "completed", timestamp |-> -200000]>>]

UserIds == {"u_new", "u_reg", "u_calm", "u_fast", "u_burst", "u_nokey"}

UserHistoryArgs == {EmptyDict, Histories}

\* the clock at the time of a call: a night hour or a business hour
NowValues == {Epoch(3), Epoch(15)}

Field(k, values) == {EmptyDict} \cup {k :> v : v \in values}

\* every combination of the fields the scoring reads, each present or absent
RichTransactions ==
    {("id" :> "t1") @@ u @@ a @@ f @@ t @@ d :
        u \in {"user_id" :> v : v \in UserIds},
        a \in Field("amount", {5000, 10000, 40000, 99999, 200000}),
        f \in Field("is_first", {1}),
        t \in Field("timestamp", {Epoch(2), Epoch(14), IsoString(2), TextString}),
        d \in Field("session_duration", {45, 60})}

\* the transactions of the batches: a regular payment, one without 'amount',
\* one with a timestamp that is no date, and a first payment without an id
BatchTransactions ==
    {[id |-> "a", user_id |-> "u_reg", amount |-> 5000,
      timestamp |-> Epoch(14), session_duration |-> 120],
     [id |-> "b", user_id |-> "u_reg",
      timestamp |-> Epoch(14), session_duration |-> 120],
     [id |-> "c", user_id |-> "u_new", amount |-> 99999,
      timestamp |-> TextString, session_duration |-> 45],
     [user_id |-> "u_new", amount |-> 99999, is_first |-> 1,
      timestamp |-> Epoch(2), session_duration |-> 45]}

\* the addresses a client sends: IPv4, IPv6, IPv4-mapped IPv6, a host name,
\* the empty string
Addresses ==
    {<<"203", "0", "113", "7">>, <<"10", "0", "0", "1">>, <<"2001:db8::1">>,
     <<"::ffff:203", "0", "113", "7">>, <<"localhost">>, NoAddress}

AddressedTransactions ==
    {Update([id |-> "t1", user_id |-> "u_reg", amount |-> 5000], more) :
        more \in Field("ip_address", Addresses)}

-----------------------------------------------------------------------------
(* FraudModelTrainer: the model artifact *)

\* the training configuration: the default of __init__, or one the caller gave
DefaultTrainerConfig ==
    [test_size |-> 20, random_state |-> 42, cv_folds |-> 5,
     training |-> [save_model |-> TRUE, model_path |-> "models/fraud_model.pkl"]]

TrainerConfigs ==
    {DefaultTrainerConfig,
     [test_size |-> 30, random_state |-> 7, cv_folds |-> 3,
      training |-> [save_model |-> TRUE, model_path |-> "models/fraud_model.pkl"]]}

\* FraudModelTrainer(config): models as _initialize_models leaves them
NewTrainer(trainer_config) ==
    [config |-> trainer_config,
     models |-> [random_forest |-> "RandomForestClassifier",
                 gradient_boosting |-> "GradientBoostingClassifier"],
     best_model |-> None]

TrainedModels == {"RandomForestClassifier", "GradientBoostingClassifier"}

\* X.columns of the training data
FeatureNameLists ==
    {<<"transaction_amount", "hour_of_day", "composite_risk_score">>,
     <<"transaction_amount", "amount_log", "hour_of_day", "session_duration">>}

\* datetime.now().isoformat() at the time of a save
SaveTimes == {"2026-01-10T09:00:00", "2026-02-01T09:00:00"}

NoArtifact == [kind |-> "missing"]

\* the dict _save_model pickles
ModelInfo(trained, feature_names, now) ==
    [model |-> trained,
     feature_names |-> feature_names,
     trained_at |-> now,
     model_type |-> trained,
     config |-> trainer.config]

\* what FraudModelTrainer.load_model returns and leaves in the trainer
TrainerLoadResult ==
    IF artifact.kind = "dict"
    THEN LET model_info == artifact.info
             model_type == model_info.model_type
         IN [ret |-> [success |-> TRUE,
                      model_type |-> model_type,
                      feature_names |-> model_info.feature_names,
                      trained_at |-> model_info.trained_at,
                      model |-> model_info.model],
             models |-> Update(trainer.models, model_type :> model_info.model),
             best_model |-> [model_type |-> model_type,
                             model |-> model_info.model,
                             feature_names |-> model_info.feature_names,
                             trained_at |-> model_info.trained_at,
                             model_path |-> "models/fraud_model.pkl"]]
    ELSE [ret |-> [success |-> FALSE, error |-> artifact.kind],
          models |-> trainer.models,
          best_model |-> trainer.best_model]

-----------------------------------------------------------------------------
(* AnomalyDetector.  A feature array has one column; a row is its value.  An
   anomaly score is counted in 1/100 (-100..0 stands for -1.0..0.0) and a
   threshold or offset in 1/10000, which keeps the interpolated percentile
   exact.  contamination is counted in percent. *)

Contaminations == {5, 10, 30}

\* StandardScaler(): the statistics a fit leaves; n = 0 before any fit
UnfittedScaler == [n |-> 0, sum |-> 0, sumsq |-> 0]

SumSquares(s) == SumSeq([i \in DOMAIN s |-> s[i] * s[i]])

\* AnomalyDetector(contamination); None is written <<>> for feature_columns,
\* and self.threshold does not exist yet
NewDetector(contamination) ==
    [contamination |-> contamination,
     model |-> [fitted |-> FALSE],
     scaler |-> UnfittedScaler,
     is_fitted |-> FALSE,
     feature_columns |-> <<>>]

\* scaler.transform of one row, squared: ((x - mean) / scale)^2, where a
\* column of zero variance is scaled by 1
ScaledSquare(scaler, x) ==
    LET dev == scaler.n * x - scaler.sum
        spread == scaler.n * scaler.sumsq - scaler.sum * scaler.sum
    IN IF spread = 0 THEN Rat(dev * dev, scaler.n * scaler.n)
       ELSE Rat(dev * dev, spread)

\* model.score_samples of one scaled row: lower is more anomalous.  The forest
\* is a fixed function of the scaled row; here the score falls with the
\* squared distance from the centre of the training data.
ScoreSample(scaler, x) ==
    LET z2 == ScaledSquare(scaler, x)
    IN -(40 + Min(50, (10 * z2.num) \div z2.den))

score_samples(scaler, features) ==
    [i \in DOMAIN features |-> ScoreSample(scaler, features[i])]

\* np.percentile(scores, q), linear interpolation, in 1/10000
Percentile(scores, q) ==
    LET sorted == SortSeq(scores, LAMBDA a, b : a < b)
        position == (Len(scores) - 1) * q
        below == position \div 100 + 1
        fraction == position % 100
    IN IF fraction = 0 THEN 100 * sorted[below]
       ELSE 100 * sorted[below] + fraction * (sorted[below + 1] - sorted[below])

\* mutant: train that forgets to set is_fitted
TrainLeavingUnfitted(d, features) ==
    IF features = <<>>
    THEN [state |-> [d EXCEPT !.scaler = UnfittedScaler],
          ret |-> Raise("ValueError: Found array with 0 sample(s)")]
    ELSE LET fit == [n |-> Len(features), sum |-> SumSeq(features),
                     sumsq |-> SumSquares(features)]
             scores == score_samples(fit, features)
         IN [state |-> Update(
                 [d EXCEPT !.scaler = fit,
                           !.model = [fitted |-> TRUE,
                                      offset_ |-> Percentile(scores, d.contamination)],
                           !.feature_columns = <<0>>],
                 [threshold |-> Percentile(scores, 10)]),
             ret |-> Ok("self")]

\* AnomalyDetector.train(features): the detector it leaves and what it
\* returns.  fit_transform resets the scaler before it validates the array,
\* so a train that raises on an empty array leaves the scaler unfitted.
AnomalyDetectorTrain(d, features) ==
    IF features = <<>>
    THEN [state |-> [d EXCEPT !.scaler = UnfittedScaler],
          ret |-> Raise("ValueError: Found array with 0 sample(s)")]
    ELSE LET fit == [n |-> Len(features), sum |-> SumSeq(features),
                     sumsq |-> SumSquares(features)]
             scores == score_samples(fit, features)
         IN [state |-> Update(
                 [d EXCEPT !.scaler = fit,
                           !.model = [fitted |-> TRUE,
                                      offset_ |-> Percentile(scores, d.contamination)],
                           !.is_fitted = TRUE,
                           !.feature_columns = <<0>>],
                 [threshold |-> Percentile(scores, 10)]),
             ret |-> Ok("self")]

NotTrained == Raise("ValueError: Model must be trained before detection")

ScalerNotFitted == Raise("NotFittedError: StandardScaler")

\* model.predict of one row: -1 when decision_function = score - offset_ < 0
ModelPredictsAnomaly(d, score) == 100 * score - d.model.offset_ < 0

\* AnomalyDetector.detect(features): (anomalies, scores)
detect(d, features) ==
    IF ~d.is_fitted THEN NotTrained
    ELSE IF d.scaler.n = 0 THEN ScalerNotFitted
    ELSE LET scores == score_samples(d.scaler, features)
         IN Ok([anomalies |-> [i \in DOMAIN features |->
                                  IF ModelPredictsAnomaly(d, scores[i]) THEN 1 ELSE 0],
                scores |-> scores])

\* AnomalyDetector.explain_anomaly(features): one record per row whose score
\* is below self.threshold
explain_anomaly(d, features) ==
    IF ~d.is_fitted THEN Ok(<<>>)
    ELSE IF d.scaler.n = 0 THEN ScalerNotFitted
    ELSE LET scores == score_samples(d.scaler, features)
             Explanation(i) ==
                 LET z2 == ScaledSquare(d.scaler, features[i])
                 IN [index |-> i - 1,
                     anomaly_score |-> scores[i],
                     threshold |-> d.threshold,
                     is_anomaly |-> TRUE,
                     contributing_factors |->
                         IF RatGt(z2, 4, 1)
                         THEN <<[feature_index |-> 0,
                                 feature_name |-> "feature_0",
                                 contribution |-> IF RatGt(z2, 9, 1) THEN "high"
                                                  ELSE "medium"]>>
                         ELSE <<>>]
             rows == [i \in DOMAIN features |-> i]
             flagged == SelectSeq(rows, LAMBDA i : 100 * scores[i] < d.threshold)
         IN Ok([k \in DOMAIN flagged |-> Explanation(flagged[k])])

\* AnomalyDetector.calculate_risk_level(score)
calculate_risk_level(d, score) ==
    IF "threshold" \notin DOMAIN d THEN Raise("AttributeError: threshold")
    ELSE Ok(IF 100 * score < d.threshold - 10000 THEN "CRITICAL"
            ELSE IF 100 * score < d.threshold - 5000 THEN "HIGH"
            ELSE IF 100 * score < d.threshold THEN "MEDIUM"
            ELSE IF 100 * score < d.threshold + 5000 THEN "LOW"
            ELSE "NORMAL")

\* mutant: update_model that retrains on the new data
UpdateModelRetraining(d, new_data) == AnomalyDetectorTrain(d, new_data)

\* AnomalyDetector.update_model(new_data)
update_model(d, new_data) ==
    IF ~d.is_fitted THEN AnomalyDetectorTrain(d, new_data)
    ELSE IF d.scaler.n = 0 \/ new_data = <<>>
    THEN [state |-> d, ret |-> IF d.scaler.n = 0 THEN ScalerNotFitted
                               ELSE Raise("ValueError: Found array with 0 sample(s)")]
    ELSE [state |-> d, ret |-> Ok("self")]

\* the arrays the callers pass
TrainingArrays ==
    {<<1, 2, 2, 3, 3, 3, 4, 4, 5, 9>>, <<5, 5, 5, 5>>, <<0, 0, 1, 1, 8>>, <<>>}

DetectArrays == {<<0>>, <<1>>, <<3>>, <<6>>, <<9>>, <<3, 9>>}

ScoreValues == {-90, -69, -55, -40}

-----------------------------------------------------------------------------
(* FraudModelTrainer: train, train_all_models, prepare_training_data.  The
   estimators of self.models are objects: fitting one changes it in place, and
   best_model['model'] is a reference to one of them, written as its key.
   None is written <<>> and a value that may be None <<value>>.  ROC-AUC is
   counted in percent.  training_history, the cross-validation scores and the
   feature importances are left out: nothing here reads them. *)

\* self.models.keys(), in the order _initialize_models inserts them
ModelTypes == <<"random_forest", "gradient_boosting", "logistic_regression", "xgboost">>

\* type(model).__name__
ClassName ==
    [random_forest |-> "RandomForestClassifier",
     gradient_boosting |-> "GradientBoostingClassifier",
     logistic_regression |-> "Pipeline",
     xgboost |-> "XGBClassifier"]

\* the training sets (X, y) a caller has; in the last one a class has a
\* single member, so the stratified split raises
DataSets == {"january", "february", "one_fraud"}

Splittable(data) == data # "one_fraud"

\* metrics['roc_auc'] of a model type fitted on a training set, on its test split
RocAuc ==
    [random_forest |-> [january |-> 95, february |-> 80],
     gradient_boosting |-> [january |-> 85, february |-> 90],
     logistic_regression |-> [january |-> 70, february |-> 75],
     xgboost |-> [january |-> 88, february |-> 82]]

TrainerModelPath == "models/fraud_model.pkl"

BestModelPath == "models/best_fraud_model.pkl"

StorePaths == {TrainerModelPath, BestModelPath}

\* FraudModelTrainer(): no estimator fitted, no best model
NewFraudTrainer(extractor) ==
    [feature_extractor |-> extractor,
     models |-> [k \in {ModelTypes[i] : i \in DOMAIN ModelTypes} |-> "unfitted"],
     best_model |-> <<>>]

EmptyStore == [path \in StorePaths |-> <<>>]

\* _save_model(model, model_path, feature_names): pickles the estimator as it
\* is at that moment
SaveEstimator(t, store, key, path) ==
    [store EXCEPT ![path] =
        <<[model |-> [estimator |-> key, fitted_on |-> t.models[key]],
           model_type |-> ClassName[key]]>>]

\* line 321: not self.best_model or roc_auc > best_model's roc_auc
ReplacesBest(best_model, roc_auc) ==
    best_model = <<>> \/ roc_auc > Get(Get(best_model[1], "metrics", EmptyDict), "roc_auc", 0)

\* FraudModelTrainer.train(X, y, model_type): the trainer and the files it
\* leaves, and the dict it returns
train(t, store, data, model_type) ==
    IF model_type \notin DOMAIN t.models
    THEN [trainer |-> t, store |-> store,
          ret |-> [success |-> FALSE, error |-> "Unknown model type"]]
    ELSE IF ~Splittable(data)
    THEN [trainer |-> t, store |-> store,
          ret |-> [success |-> FALSE, error |-> "ValueError", model_type |-> model_type]]
    ELSE LET fitted == [t EXCEPT !.models[model_type] = data]
             metrics == [roc_auc |-> RocAuc[model_type][data]]
         IN [trainer |->
                 IF ReplacesBest(t.best_model, metrics.roc_auc)
                 THEN [fitted EXCEPT !.best_model =
                          <<[model_type |-> model_type,
                             model |-> model_type,
                             metrics |-> metrics,
                             model_path |-> TrainerModelPath]>>]
                 ELSE fitted,
             store |-> SaveEstimator(fitted, store, model_type, TrainerModelPath),
             ret |-> [success |-> TRUE, model_type |-> model_type,
                      metrics |-> metrics, model_path |-> TrainerModelPath]]

\* the loop of lines 394-397: train every model type in turn
RECURSIVE TrainEach(_, _, _, _, _)
TrainEach(t, store, data, k, results) ==
    IF k > Len(ModelTypes) THEN [trainer |-> t, store |-> store, results |-> results]
    ELSE LET step == train(t, store, data, ModelTypes[k])
         IN TrainEach(step.trainer, step.store, data, k + 1, Append(results, step.ret))

\* the loop of lines 400-408: the first result with the highest ROC-AUC above 0
RECURSIVE BestOf(_, _, _)
BestOf(results, k, best) ==
    IF k > Len(results) THEN best
    ELSE IF results[k].success /\ results[k].metrics.roc_auc > best.best_roc_auc
    THEN BestOf(results, k + 1,
                [best_model_type |-> <<ModelTypes[k]>>,
                 best_roc_auc |-> results[k].metrics.roc_auc])
    ELSE BestOf(results, k + 1, best)

\* FraudModelTrainer.train_all_models(X, y)
train_all_models(t, store, data) ==
    LET trained == TrainEach(t, store, data, 1, <<>>)
        best == BestOf(trained.results, 1, [best_model_type |-> <<>>, best_roc_auc |-> 0])
    IN IF best.best_model_type # <<>>
       THEN LET marked == [trained.trainer EXCEPT !.best_model =
                              <<Update(@[1], [is_best |-> TRUE])>>]
            IN [trainer |-> marked,
                store |-> SaveEstimator(marked, trained.store,
                                        marked.best_model[1].model, BestModelPath),
                ret |-> [success |-> TRUE,
                         best_model |-> best.best_model_type[1],
                         best_roc_auc |-> best.best_roc_auc,
                         results |-> trained.results,
                         best_model_path |-> BestModelPath]]
       ELSE [trainer |-> trained.trainer, store |-> trained.store,
             ret |-> [success |-> FALSE, error |-> "No model trained successfully",
                      results |-> trained.results]]

\* the transactions and labels a caller prepares training data from; the k-th
\* transaction's history is the earlier transactions of the same user
TrainingTransactions ==
    {[id |-> "t1", user_id |-> "u1", amount |-> 5000, status |-> "completed",
      session_duration |-> 300],
     [id |-> "t2", user_id |-> "u1", amount |-> 20000, status |-> "failed",
      session_duration |-> 30],
     [id |-> "t3", user_id |-> "u2", amount |-> 900, status |-> "completed"]}

TrainingLists ==
    {<<a>> : a \in TrainingTransactions}
        \cup {<<a, b>> : a \in TrainingTransactions, b \in TrainingTransactions}

\* labels: None, or a list of 0/1 of length 0 to 2
LabelLists ==
    {<<>>} \cup {<<l>> : l \in {<<>>, <<0>>, <<1>>, <<0, 1>>, <<1, 0>>, <<1, 1>>}}

EarlierOfUser(transactions, i) ==
    SelectSeq(SubSeq(transactions, 1, i - 1),
              LAMBDA t : Get(t, "user_id", None) = Get(transactions[i], "user_id", None))

\* FraudFeatureExtractor.prepare_training_data(transactions, labels): the rows
\* of the DataFrame, or the exception of the first extraction that raises
ExtractorTrainingData(transactions, labels, now) ==
    LET Row(i) == extract_features(transactions[i], EarlierOfUser(transactions, i), now)
        Labelled(i) == IF labels # <<>> /\ i <= Len(labels[1])
                       THEN Update(Row(i).val, [is_fraud |-> labels[1][i]])
                       ELSE Row(i).val
    IN IF \E i \in DOMAIN transactions : ~Row(i).ok
       THEN Row(CHOOSE i \in DOMAIN transactions :
                    ~Row(i).ok /\ \A j \in 1..(i - 1) : Row(j).ok)
       ELSE Ok([i \in DOMAIN transactions |-> Labelled(i)])

\* FraudModelTrainer._prepare_basic_training_data: (X, y); the payment-method,
\* calendar and device columns are left out
_prepare_basic_training_data(transactions, labels) ==
    LET Row(i) ==
            LET amount == Get(transactions[i], "amount", 0)
                session_duration == Get(transactions[i], "session_duration", 0)
                user_transactions == EarlierOfUser(transactions, i)
                amounts == [k \in DOMAIN user_transactions |->
                               Get(user_transactions[k], "amount", 0)]
            IN [amount |-> amount,
                session_duration |-> session_duration,
                short_session |-> IF session_duration < 60 THEN 1 ELSE 0,
                user_transaction_count |-> Len(user_transactions),
                user_avg_amount |-> IF user_transactions # <<>>
                                    THEN Rat(SumSeq(amounts), Len(amounts))
                                    ELSE Rat(0, 1),
                amount_deviation |-> IF user_transactions # <<>> /\ SumSeq(amounts) > 0
                                     THEN Rat(amount * Len(amounts), SumSeq(amounts))
                                     ELSE Rat(10, 1)]
    IN Ok([X |-> [i \in DOMAIN transactions |-> Row(i)],
           y |-> IF labels # <<>> /\ Len(labels[1]) = Len(transactions)
                 THEN labels ELSE <<>>])

\* FraudModelTrainer.prepare_training_data(transactions, labels): (X, y)
prepare_training_data(t, transactions, labels, now) ==
    IF t.feature_extractor # None
    THEN LET X == ExtractorTrainingData(transactions, labels, now)
         IN IF X.ok THEN Ok([X |-> X.val, y |-> labels]) ELSE X
    ELSE _prepare_basic_training_data(transactions, labels)

\* the detector and the trainer of a process that uses neither
IdleDetectorAndTrainer ==
    /\ detector = NewDetector(10)
    /\ completed_trains = {}
    /\ fraud_trainer = NewFraudTrainer("FraudFeatureExtractor")
    /\ model_store = EmptyStore

-----------------------------------------------------------------------------
(* The state machine *)

\* no call is in flight
NoPredict == [pc |-> "idle"]

NoLoad == [pc |-> "idle"]

\* FraudPredictor(model_path, config) in a process whose file system is fs and
\* in which the import of FraudFeatureExtractor succeeded (extractor) or not.
\* _initialize_components calls load_model only for a path that exists.
Construct(arg, extractor, fs) ==
    LET path == "models/fraud_model.pkl"
        exists == fs[path] # "missing"
        loaded == LoadResult(fs[path], path, None, "unset")
    IN /\ config = ConfigOr(arg)
       /\ feature_extractor = extractor
       /\ files = fs
       /\ model = IF exists THEN loaded.model ELSE None
       /\ model_loaded = IF exists THEN loaded.model_loaded ELSE FALSE
       /\ model_path = IF exists THEN loaded.model_path ELSE "unset"
       /\ lastLoad = IF ~exists THEN "none" ELSE IF loaded.ret THEN "ok" ELSE "failed"
       /\ call = [op |-> "__init__"]
       /\ predicting = NoPredict
       /\ loading = NoLoad

Constructed ==
    \E arg \in ConfigArgs, extractor \in {"FraudFeatureExtractor", "None"},
       fs \in [Paths -> FileContents] :
        Construct(arg, extractor, fs)

LoadModel(path) ==
    LET loaded == LoadResult(files[path], path, model, model_path)
    IN /\ model' = loaded.model
       /\ model_loaded' = loaded.model_loaded
       /\ model_path' = loaded.model_path
       /\ lastLoad' = IF loaded.ret THEN "ok" ELSE "failed"
       /\ call' = [op |-> "load_model", input |-> path, ret |-> loaded.ret]
       /\ UNCHANGED <<config, feature_extractor, files, request, threadVars, trainerVars, detectorVars, trainingVars>>

SaveModel(path) ==
    /\ files' = IF SaveSucceeds(path) THEN [files EXCEPT ![path] = model] ELSE files
    /\ call' = [op |-> "save_model", input |-> path, ret |-> SaveSucceeds(path)]
    /\ UNCHANGED <<predictorVars, lastLoad, request, threadVars, trainerVars, detectorVars, trainingVars>>

Predict(features) ==
    /\ call' = [op |-> "predict", input |-> features,
                path |-> PredictPath(features), ret |-> predict(features)]
    /\ UNCHANGED <<predictorVars, files, lastLoad, request, threadVars, trainerVars, detectorVars, trainingVars>>

\* mutant: a batch in which the model branch raised switches the predictor to
\* the rules for good
PredictBatchDemoting(transactions, user_history, now) ==
    LET ret == predict_batch(transactions, user_history, now)
        FellBackAt(i) == "error" \notin DOMAIN ret[i] /\ "method" \in DOMAIN ret[i].explanation
    IN /\ call' = [op |-> "predict_batch", input |-> transactions,
                   user_history |-> user_history, now |-> now, ret |-> ret]
       /\ model_loaded' = (model_loaded /\ ~\E i \in DOMAIN ret : FellBackAt(i))
       /\ UNCHANGED <<config, feature_extractor, model, model_path,
                      files, lastLoad, request, threadVars, trainerVars, detectorVars, trainingVars>>

PredictBatch(transactions, user_history, now) ==
    /\ call' = [op |-> "predict_batch", input |-> transactions,
                user_history |-> user_history, now |-> now,
                ret |-> predict_batch(transactions, user_history, now)]
    /\ UNCHANGED <<predictorVars, files, lastLoad, request, threadVars, trainerVars, detectorVars, trainingVars>>

GetModelInfo ==
    /\ call' = [op |-> "get_model_info", ret |-> get_model_info]
    /\ UNCHANGED <<predictorVars, files, lastLoad, request, threadVars, trainerVars, detectorVars, trainingVars>>

\* the environment deploys, replaces, damages or removes the model file
WriteFile(path, content) ==
    /\ files[path] # content
    /\ files' = [files EXCEPT ![path] = content]
    /\ UNCHANGED <<predictorVars, lastLoad, request, call, threadVars, trainerVars, detectorVars, trainingVars>>

\* FraudModelTrainer._save_model(model, path, feature_names) after training a
\* random forest: the file then holds the pickled dict {model, feature_names,
\* trained_at, model_type, config}
TrainerSaveModel(path) ==
    /\ DirName(path) # ""
    /\ files' = [files EXCEPT ![path] = "TrainerArtifact"]
    /\ call' = [op |-> "_save_model", input |-> path, ret |-> TRUE]
    /\ UNCHANGED <<predictorVars, lastLoad, request, threadVars, trainerVars, detectorVars, trainingVars>>

\* the caller appends a transaction to the list it is assembling
Submit(transaction) ==
    /\ Len(request) < MaxBatch
    /\ request' = Append(request, transaction)
    /\ UNCHANGED <<predictorVars, files, lastLoad, call, threadVars, trainerVars, detectorVars, trainingVars>>

\* the feature vectors handed to predict directly
PredictInputs ==
    {f.val : f \in {r \in {ExtractFor(t, HistoryFor(t, Histories), Epoch(15)) :
                               t \in BatchTransactions} : r.ok}}

LifecycleBatches ==
    {<<>>} \cup {<<t>> : t \in BatchTransactions}

(* The predictor's life: loads, saves, predictions and the file system. *)
Init ==
    /\ Constructed
    /\ request = <<>>
    /\ trainer = NewTrainer(DefaultTrainerConfig)
    /\ artifact = NoArtifact
    /\ IdleDetectorAndTrainer

Next ==
    \/ \E path \in Paths : LoadModel(path)
    \/ \E path \in Paths : SaveModel(path)
    \/ \E features \in PredictInputs : Predict(features)
    \/ \E batch \in LifecycleBatches, now \in NowValues : PredictBatch(batch, Histories, now)
    \/ GetModelInfo
    \/ \E path \in Paths, content \in FileContents : WriteFile(path, content)
    \/ \E path \in Paths : TrainerSaveModel(path)

Spec == Init /\ [][Next]_vars

(* Batches: a caller assembles a list and has it scored. *)
ScoreRequest == \E now \in NowValues : PredictBatch(request, Histories, now)

NextBatch ==
    \/ \E transaction \in BatchTransactions : Submit(transaction)
    \/ ScoreRequest

SpecBatch == Init /\ [][NextBatch]_vars

(* Scoring: one transaction of any shape, scored once. *)
InitScore ==
    /\ Constructed
    /\ request \in {<<t>> : t \in RichTransactions}
    /\ trainer = NewTrainer(DefaultTrainerConfig)
    /\ artifact = NoArtifact
    /\ IdleDetectorAndTrainer

ScoreOne ==
    /\ call.op = "__init__"
    /\ \E user_history \in UserHistoryArgs, now \in NowValues :
           PredictBatch(request, user_history, now)

NextScore == ScoreOne

SpecScore == InitScore /\ [][NextScore]_vars

(* Addresses: one transaction that carries an ip_address, scored once. *)
InitAddressed ==
    /\ Constructed
    /\ request \in {<<t>> : t \in AddressedTransactions}
    /\ trainer = NewTrainer(DefaultTrainerConfig)
    /\ artifact = NoArtifact
    /\ IdleDetectorAndTrainer

NextAddressed == ScoreOne

SpecAddressed == InitAddressed /\ [][NextAddressed]_vars

(* Threads: a predict call and a load_model call run on two threads of one
   process; each step is one read or write of an attribute of the predictor,
   in the order of the statements of predict (lines 161-190) and load_model
   (lines 101-119).  There is no lock in either method. *)
Frame(pc, features, tested, checked, invoked) ==
    [pc |-> pc, features |-> features, tested |-> tested,
     checked |-> checked, invoked |-> invoked]

\* predict returns: the frame keeps what the call read
Return(frame, path, ret) ==
    /\ predicting' = [frame EXCEPT !.pc = "done"]
    /\ call' = [op |-> "predict", input |-> frame.features, path |-> path, ret |-> ret]

\* line 161, left operand: `self.model_loaded`
BeginPredict(features) ==
    /\ predicting.pc \in {"idle", "done"}
    /\ IF model_loaded
       THEN /\ predicting' = Frame("and_model", features, None, None, None)
            /\ UNCHANGED call
       ELSE Return(Frame("done", features, None, None, None), "rule",
                   _rule_based_prediction(features))
    /\ UNCHANGED <<predictorVars, files, lastLoad, request, loading, trainerVars, detectorVars, trainingVars>>

\* line 161, right operand: `and self.model`
TestModel ==
    /\ predicting.pc = "and_model"
    /\ IF Truthy(model)
       THEN /\ predicting' = [predicting EXCEPT !.pc = "hasattr", !.tested = model]
            /\ UNCHANGED call
       ELSE Return([predicting EXCEPT !.tested = model], "rule",
                   _rule_based_prediction(predicting.features))
    /\ UNCHANGED <<predictorVars, files, lastLoad, request, loading, trainerVars, detectorVars, trainingVars>>

\* line 169: hasattr(self.model, 'predict_proba')
CheckCapability ==
    /\ predicting.pc = "hasattr"
    /\ predicting' = [predicting EXCEPT !.pc = "infer", !.checked = model]
    /\ UNCHANGED <<predictorVars, files, lastLoad, request, call, loading, trainerVars, detectorVars, trainingVars>>

\* lines 170 or 173: self.model.predict_proba / self.model.predict, then the
\* rest of the branch, or the handler of lines 187-190
Infer ==
    /\ predicting.pc = "infer"
    /\ LET branch == ModelBranchOn(predicting.checked, model, predicting.features)
           frame == [predicting EXCEPT !.invoked = model]
       IN IF branch.ok THEN Return(frame, "model", branch)
          ELSE Return(frame, "fallback", _rule_based_prediction(predicting.features))
    /\ UNCHANGED <<predictorVars, files, lastLoad, request, loading, trainerVars, detectorVars, trainingVars>>

\* lines 102-103: self.model = pickle.load(f); a failure runs lines 116-119
BeginLoad(path) ==
    /\ loading.pc = "idle"
    /\ IF Unpickles(files[path])
       THEN /\ model' = files[path]
            /\ loading' = [pc |-> "set_loaded", path |-> path]
            /\ UNCHANGED <<model_loaded, lastLoad, call>>
       ELSE /\ model_loaded' = FALSE
            /\ lastLoad' = "failed"
            /\ call' = [op |-> "load_model", input |-> path, ret |-> FALSE]
            /\ UNCHANGED <<model, loading>>
    /\ UNCHANGED <<config, feature_extractor, model_path, files, request, predicting, trainerVars, detectorVars, trainingVars>>

\* line 105: self.model_loaded = True
SetLoaded ==
    /\ loading.pc = "set_loaded"
    /\ model_loaded' = TRUE
    /\ loading' = [loading EXCEPT !.pc = "set_path"]
    /\ UNCHANGED <<config, feature_extractor, model, model_path, files, lastLoad,
                   request, call, predicting, trainerVars, detectorVars, trainingVars>>

\* lines 106-114: self.model_path = model_path; return True
SetPath ==
    /\ loading.pc = "set_path"
    /\ model_path' = loading.path
    /\ lastLoad' = "ok"
    /\ call' = [op |-> "load_model", input |-> loading.path, ret |-> TRUE]
    /\ loading' = NoLoad
    /\ UNCHANGED <<config, feature_extractor, model, model_loaded, files,
                   request, predicting, trainerVars, detectorVars, trainingVars>>

NextThreads ==
    \/ \E features \in PredictInputs : BeginPredict(features)
    \/ TestModel
    \/ CheckCapability
    \/ Infer
    \/ \E path \in Paths : BeginLoad(path)
    \/ SetLoaded
    \/ SetPath
    \/ \E path \in Paths, content \in FileContents : WriteFile(path, content)

\* a service process: FraudPredictor() with the default configuration
InitThreads ==
    /\ \E fs \in [Paths -> FileContents] :
           Construct([given |-> FALSE, dict |-> EmptyDict], "FraudFeatureExtractor", fs)
    /\ request = <<>>
    /\ trainer = NewTrainer(DefaultTrainerConfig)
    /\ artifact = NoArtifact
    /\ IdleDetectorAndTrainer

SpecThreads == InitThreads /\ [][NextThreads]_vars

(* Training: a trainer saves model artifacts and trainers load them. *)
\* FraudModelTrainer._save_model(model, path, feature_names)
TrainerSave(trained, feature_names, now) ==
    /\ artifact' = [kind |-> "dict", info |-> ModelInfo(trained, feature_names, now)]
    /\ call' = [op |-> "_save_model", input |-> trained, ret |-> TRUE]
    /\ UNCHANGED <<predictorVars, files, lastLoad, request, threadVars, trainer, detectorVars, trainingVars>>

\* FraudModelTrainer.load_model(path)
TrainerLoad ==
    /\ trainer' = [trainer EXCEPT !.models = TrainerLoadResult.models,
                                  !.best_model = TrainerLoadResult.best_model]
    /\ call' = [op |-> "FraudModelTrainer.load_model", ret |-> TrainerLoadResult.ret]
    /\ UNCHANGED <<predictorVars, files, lastLoad, request, threadVars, artifact, detectorVars, trainingVars>>

\* another process constructs FraudModelTrainer(config)
TrainerRestart(trainer_config) ==
    /\ trainer' = NewTrainer(trainer_config)
    /\ call' = [op |-> "FraudModelTrainer.__init__"]
    /\ UNCHANGED <<predictorVars, files, lastLoad, request, threadVars, artifact, detectorVars, trainingVars>>

\* the environment truncates or removes the artifact
DamageArtifact(kind) ==
    /\ artifact.kind # kind
    /\ artifact' = [kind |-> kind]
    /\ UNCHANGED <<predictorVars, files, lastLoad, request, call, threadVars, trainer, detectorVars, trainingVars>>

InitTrainer ==
    /\ Construct([given |-> FALSE, dict |-> EmptyDict], "FraudFeatureExtractor",
                 [path \in Paths |-> "missing"])
    /\ request = <<>>
    /\ trainer \in {NewTrainer(c) : c \in TrainerConfigs}
    /\ artifact = NoArtifact
    /\ IdleDetectorAndTrainer

NextTrainer ==
    \/ \E trained \in TrainedModels, feature_names \in FeatureNameLists, now \in SaveTimes :
           TrainerSave(trained, feature_names, now)
    \/ TrainerLoad
    \/ \E trainer_config \in TrainerConfigs : TrainerRestart(trainer_config)
    \/ \E kind \in {"missing", "corrupt"} : DamageArtifact(kind)

SpecTrainer == InitTrainer /\ [][NextTrainer]_vars

(* Anomaly detection: one AnomalyDetector, trained, queried and updated. *)
\* AnomalyDetector.train(features)
Train(features) ==
    LET result == AnomalyDetectorTrain(detector, features)
    IN /\ detector' = result.state
       /\ completed_trains' = IF result.ret.ok THEN completed_trains \cup {features}
                              ELSE completed_trains
       /\ call' = [op |-> "train", input |-> features, ret |-> result.ret]
       /\ UNCHANGED <<predictorVars, files, lastLoad, request, threadVars,
                      trainerVars, trainingVars>>

\* AnomalyDetector.detect(features)
Detect(features) ==
    /\ call' = [op |-> "detect", input |-> features, ret |-> detect(detector, features)]
    /\ UNCHANGED <<predictorVars, files, lastLoad, request, threadVars,
                   trainerVars, detectorVars, trainingVars>>

\* AnomalyDetector.explain_anomaly(features)
ExplainAnomaly(features) ==
    /\ call' = [op |-> "explain_anomaly", input |-> features,
                ret |-> explain_anomaly(detector, features)]
    /\ UNCHANGED <<predictorVars, files, lastLoad, request, threadVars,
                   trainerVars, detectorVars, trainingVars>>

\* AnomalyDetector.calculate_risk_level(score)
CalculateRiskLevel(score) ==
    /\ call' = [op |-> "calculate_risk_level", input |-> <<score>>,
                ret |-> calculate_risk_level(detector, score)]
    /\ UNCHANGED <<predictorVars, files, lastLoad, request, threadVars,
                   trainerVars, detectorVars, trainingVars>>

\* AnomalyDetector.update_model(new_data); on an unfitted detector it is a
\* train call
UpdateModel(new_data) ==
    LET result == update_model(detector, new_data)
    IN /\ detector' = result.state
       /\ completed_trains' = IF ~detector.is_fitted /\ result.ret.ok
                              THEN completed_trains \cup {new_data}
                              ELSE completed_trains
       /\ call' = [op |-> "update_model", input |-> new_data, ret |-> result.ret]
       /\ UNCHANGED <<predictorVars, files, lastLoad, request, threadVars,
                      trainerVars, trainingVars>>

InitDetector ==
    /\ Construct([given |-> FALSE, dict |-> EmptyDict], "FraudFeatureExtractor",
                 [path \in Paths |-> "missing"])
    /\ request = <<>>
    /\ trainer = NewTrainer(DefaultTrainerConfig)
    /\ artifact = NoArtifact
    /\ detector \in {NewDetector(contamination) : contamination \in Contaminations}
    /\ completed_trains = {}
    /\ fraud_trainer = NewFraudTrainer("FraudFeatureExtractor")
    /\ model_store = EmptyStore

NextDetector ==
    \/ \E features \in TrainingArrays : Train(features)
    \/ \E features \in DetectArrays : Detect(features)
    \/ \E features \in DetectArrays : ExplainAnomaly(features)
    \/ \E score \in ScoreValues : CalculateRiskLevel(score)
    \/ \E new_data \in TrainingArrays : UpdateModel(new_data)

SpecDetector == InitDetector /\ [][NextDetector]_vars

(* Training: one FraudModelTrainer trains single models and all models. *)
\* FraudModelTrainer.train(X, y, model_type)
TrainModel(data, model_type) ==
    LET result == train(fraud_trainer, model_store, data, model_type)
    IN /\ fraud_trainer' = result.trainer
       /\ model_store' = result.store
       /\ call' = [op |-> "FraudModelTrainer.train", input |-> data, ret |-> result.ret]
       /\ UNCHANGED <<predictorVars, files, lastLoad, request, threadVars,
                      trainerVars, detectorVars>>

\* FraudModelTrainer.train_all_models(X, y)
TrainAllModels(data) ==
    LET result == train_all_models(fraud_trainer, model_store, data)
    IN /\ fraud_trainer' = result.trainer
       /\ model_store' = result.store
       /\ call' = [op |-> "train_all_models", input |-> data, ret |-> result.ret]
       /\ UNCHANGED <<predictorVars, files, lastLoad, request, threadVars,
                      trainerVars, detectorVars>>

\* another FraudModelTrainer() is constructed; the model files stay
NewTrainerProcess ==
    /\ fraud_trainer' = NewFraudTrainer(fraud_trainer.feature_extractor)
    /\ call' = [op |-> "FraudModelTrainer.__init__"]
    /\ UNCHANGED <<predictorVars, files, lastLoad, request, threadVars,
                   trainerVars, detectorVars, model_store>>

InitTrain ==
    /\ Construct([given |-> FALSE, dict |-> EmptyDict], "FraudFeatureExtractor",
                 [path \in Paths |-> "missing"])
    /\ request = <<>>
    /\ trainer = NewTrainer(DefaultTrainerConfig)
    /\ artifact = NoArtifact
    /\ IdleDetectorAndTrainer

NextTrain ==
    \/ \E data \in DataSets, model_type \in {ModelTypes[i] : i \in DOMAIN ModelTypes} \cup {"svm"} :
           TrainModel(data, model_type)
    \/ \E data \in DataSets : TrainAllModels(data)
    \/ NewTrainerProcess

SpecTrain == InitTrain /\ [][NextTrain]_vars

(* Preparing training data: a trainer, with or without the feature extractor,
   turns transactions and labels into (X, y). *)
PrepareTrainingData(transactions, labels, now) ==
    /\ call.op = "__init__"
    /\ call' = [op |-> "prepare_training_data",
                input |-> [transactions |-> transactions, labels |-> labels],
                ret |-> prepare_training_data(fraud_trainer, transactions, labels, now)]
    /\ UNCHANGED <<predictorVars, files, lastLoad, request, threadVars,
                   trainerVars, detectorVars, trainingVars>>

InitPrepare ==
    /\ Construct([given |-> FALSE, dict |-> EmptyDict], "FraudFeatureExtractor",
                 [path \in Paths |-> "missing"])
    /\ request = <<>>
    /\ trainer = NewTrainer(DefaultTrainerConfig)
    /\ artifact = NoArtifact
    /\ detector = NewDetector(10)
    /\ completed_trains = {}
    /\ fraud_trainer \in {NewFraudTrainer(extractor) : extractor \in {"FraudFeatureExtractor", None}}
    /\ model_store = EmptyStore

NextPrepare ==
    \E transactions \in TrainingLists, labels \in LabelLists, now \in NowValues :
        PrepareTrainingData(transactions, labels, now)

SpecPrepare == InitPrepare /\ [][NextPrepare]_vars

-----------------------------------------------------------------------------
(* What the claims read *)

IsBatchCall == call.op = "predict_batch"

\* the indices of the last batch
Items == IF IsBatchCall THEN DOMAIN call.ret ELSE {}

IsError(entry) == "error" \in DOMAIN entry

IsScored(entry) == ~IsError(entry)

ScoredItems == {i \in Items : IsScored(call.ret[i])}

\* the entry was produced by _rule_based_prediction
IsRuleBased(entry) == IsScored(entry) /\ "method" \in DOMAIN entry.explanation

Actions == {"BLOCK", "REVIEW", "MONITOR", "ALLOW"}

-----------------------------------------------------------------------------
(* C1: every scored result of predict_batch, with a model loaded or in rule
   fallback, has its probability in [0,1] (0..100 percent) and its risk
   score in [0,100] (0..10000 hundredths). *)
C1_ScoresInRange ==
    \A i \in ScoredItems :
        /\ call.ret[i].prediction.probability \in 0..100
        /\ call.ret[i].risk_assessment.score \in 0..10000

\* a rule-fallback result whose rule score exceeded 100 and was capped
C1_Witness ==
    \E i \in ScoredItems :
        /\ IsRuleBased(call.ret[i])
        /\ call.ret[i].explanation.risk_score > 100
        /\ call.ret[i].prediction.probability = 100
        /\ call.ret[i].risk_assessment.score = 10000

(* C2: the recommended action of every scored result follows the precedence
   table: BLOCK exactly when is_fraud or the level is CRITICAL, otherwise
   REVIEW exactly when HIGH, otherwise MONITOR exactly when MEDIUM, otherwise
   ALLOW; no other action is produced. *)
C2_ActionTable ==
    \A i \in ScoredItems :
        LET r == call.ret[i]
            is_fraud == r.prediction.is_fraud
            level == r.risk_assessment.level
            action == r.recommended_action.action
        IN /\ action \in Actions
           /\ (action = "BLOCK") <=> (is_fraud \/ level = "CRITICAL")
           /\ (action = "REVIEW") <=> (~is_fraud /\ level = "HIGH")
           /\ (action = "MONITOR") <=> (~is_fraud /\ level = "MEDIUM")
           /\ (action = "ALLOW") <=> (~is_fraud /\ level = "LOW")

\* BLOCK by the level alone: CRITICAL without is_fraud
C2_Witness ==
    \E i \in ScoredItems :
        /\ ~call.ret[i].prediction.is_fraud
        /\ call.ret[i].risk_assessment.level = "CRITICAL"
        /\ call.ret[i].recommended_action.action = "BLOCK"

(* C3: risk_score = min(100, probability*100 * a * f), a = 1.2 for an amount
   above 1000, 1.1 for an amount in (500, 1000], else 1; f = 1.3 when the
   vector's is_first_transaction is 1, else 1; the level is CRITICAL from 90,
   HIGH from 70, MEDIUM from 30, else LOW. *)
C3_RiskScoreFormula ==
    \A i \in ScoredItems :
        LET r == call.ret[i]
            amount == r.features.transaction_amount
            a10 == IF amount > 100000 THEN 12 ELSE IF amount > 50000 /\ amount <= 100000 THEN 11 ELSE 10
            f10 == IF Get(r.features, "is_first_transaction", 0) = 1 THEN 13 ELSE 10
            product == r.prediction.probability * a10 * f10
            score == r.risk_assessment.score
        IN /\ score = (IF product > 10000 THEN 10000 ELSE product)
           /\ r.risk_assessment.level =
                 (IF score >= 9000 THEN "CRITICAL"
                  ELSE IF score >= 7000 THEN "HIGH"
                  ELSE IF score >= 3000 THEN "MEDIUM"
                  ELSE "LOW")

\* both multipliers applied and the cap not reached: 30% * 1.2 * 1.3 = 46.8
C3_Witness ==
    \E i \in ScoredItems :
        /\ call.ret[i].features.transaction_amount > 100000
        /\ Get(call.ret[i].features, "is_first_transaction", 0) = 1
        /\ call.ret[i].prediction.probability = 30
        /\ call.ret[i].risk_assessment.score = 4680
        /\ call.ret[i].risk_assessment.level = "MEDIUM"

\* the feature extraction predict_batch made for item i of the last batch
ExtractedOf(i) ==
    ExtractFor(call.input[i], HistoryFor(call.input[i], call.user_history), call.now)

(* C4: in both predictor states is_fraud is true exactly when the probability
   is >= the configured threshold, and the threshold is 0.8 whenever the
   caller's configuration does not set one (no config given, or a config
   without a threshold entry).  Stated of every item whose features were
   extracted; the code violates it for a config without a threshold entry. *)
C4_ThresholdDefault ==
    \A i \in Items :
        ExtractedOf(i).ok =>
            /\ IsScored(call.ret[i])
            /\ call.ret[i].prediction.is_fraud
                 <=> (call.ret[i].prediction.probability >= Get(config, "threshold", 80))

\* the transaction of the example: first payment of 999.99 at 2 a.m. after a
\* session of 45 seconds, by a user without history
ExampleTransaction ==
    [id |-> "t1", user_id |-> "u_new", amount |-> 99999, is_first |-> 1,
     timestamp |-> Epoch(2), session_duration |-> 45]

IsExampleCall ==
    /\ IsBatchCall
    /\ call.input = <<ExampleTransaction>>
    /\ ~model_loaded
    /\ feature_extractor = "FraudFeatureExtractor"
    /\ config = DefaultConfig

ThreeRules == <<"NIGHT_TRANSACTION", "SHORT_SESSION", "NEW_USER_HIGH_AMOUNT">>

(* C5 as stated: with no model loaded the example transaction triggers
   NEW_USER_HIGH_AMOUNT (+35), NIGHT_TRANSACTION (+15) and SHORT_SESSION
   (+20), giving rule score 70, probability 0.70, is_fraud = false,
   risk_level HIGH and action REVIEW. *)
C5_ExampleReview ==
    IsExampleCall =>
        /\ IsRuleBased(call.ret[1])
        /\ call.ret[1].explanation.risk_score = 70
        /\ call.ret[1].prediction.probability = 70
        /\ ~call.ret[1].prediction.is_fraud
        /\ call.ret[1].risk_assessment.level = "HIGH"
        /\ call.ret[1].recommended_action.action = "REVIEW"

(* C5 as amended: with no model loaded, the default threshold 0.8 and the
   FraudFeatureExtractor, the example transaction triggers exactly
   NIGHT_TRANSACTION (+15), SHORT_SESSION (+20) and NEW_USER_HIGH_AMOUNT
   (+30), giving rule score 65, probability 0.65, is_fraud = false, risk score
   min(100, 65 * 1.1 * 1.3) = 92.95, risk_level CRITICAL and action BLOCK; any
   fallback scoring whose only triggered rules are these three (is_first
   true) has rule score 65 and yields BLOCK when the amount exceeds 500 or
   the threshold is at most 0.65, and REVIEW otherwise. *)
C5_ExampleBlock ==
    /\ IsExampleCall =>
           /\ IsRuleBased(call.ret[1])
           /\ call.ret[1].explanation.risk_factors = ThreeRules
           /\ call.ret[1].explanation.risk_score = 65
           /\ call.ret[1].prediction.probability = 65
           /\ ~call.ret[1].prediction.is_fraud
           /\ call.ret[1].risk_assessment.score = 9295
           /\ call.ret[1].risk_assessment.level = "CRITICAL"
           /\ call.ret[1].recommended_action.action = "BLOCK"
    /\ \A i \in ScoredItems :
           LET r == call.ret[i]
           IN (IsRuleBased(r) /\ r.explanation.risk_factors = ThreeRules) =>
                  /\ r.explanation.risk_score = 65
                  /\ r.prediction.probability = 65
                  /\ r.prediction.is_fraud <=> (config["threshold"] <= 65)
                  /\ r.features.is_first_transaction = 1
                  /\ r.recommended_action.action =
                        (IF r.features.transaction_amount > 50000 \/ config["threshold"] <= 65
                         THEN "BLOCK" ELSE "REVIEW")

\* the example scored in rule fallback: BLOCK by a CRITICAL level
C5_Witness ==
    /\ IsExampleCall
    /\ call.ret[1].explanation.risk_factors = ThreeRules
    /\ call.ret[1].recommended_action.action = "BLOCK"

\* the preconditions of C6, read off a feature vector
Benign(features) ==
    /\ RatLe(Get(features, "amount_deviation_ratio", Rat(1, 1)), 1, 1)
    /\ RatLe(Get(features, "hourly_velocity", Rat(0, 1)), 1, 1)
    /\ ~(0 <= features.hour_of_day /\ features.hour_of_day < 6)
    /\ features.session_duration >= 60
    /\ RatLe(Get(features, "previous_failure_rate", Rat(0, 1)), 1, 10)
    /\ Get(features, "is_first_transaction", 0) = 0

(* C6: a transaction with amount_deviation_ratio <= 1, hourly_velocity <= 1,
   a daytime timestamp, session_duration >= 60, failure rate <= 0.1 and not a
   first transaction has composite_risk_score 0 and, when predict_batch
   scores it with no model loaded, the recommended action ALLOW.  (It is
   scored whenever the config has a threshold entry.) *)
C6_BenignAllowed ==
    \A i \in Items :
        (ExtractedOf(i).ok /\ Benign(ExtractedOf(i).val)) =>
            /\ ExtractedOf(i).val.composite_risk_score = 0
            /\ HasThreshold => IsScored(call.ret[i])
            /\ (IsScored(call.ret[i]) /\ ~model_loaded) =>
                   call.ret[i].recommended_action.action = "ALLOW"

\* the boundary case: ratio exactly 1, one payment in the last hour, failure
\* rate exactly 0.1, session of exactly 60 seconds, scored in rule fallback
C6_Witness ==
    /\ IsBatchCall
    /\ ~model_loaded
    /\ \E i \in ScoredItems :
           /\ Benign(call.ret[i].features)
           /\ "amount_deviation_ratio" \in DOMAIN call.ret[i].features
           /\ call.ret[i].features.amount_deviation_ratio = Rat(100000, 100000)
           /\ call.ret[i].features.hourly_velocity = Rat(1, 1)
           /\ call.ret[i].features.previous_failure_rate = Rat(1, 10)
           /\ call.ret[i].features.session_duration = 60
           /\ call.ret[i].recommended_action.action = "ALLOW"

\* what predict_batch returns for the transaction alone, in a list of one
Alone(transaction) == predict_batch(<<transaction>>, call.user_history, call.now)[1]

(* C7: predict_batch returns a list as long as its input in which entry i
   describes transaction i; an item that fails gives a {transaction_id, error}
   entry at its index, the batch is not aborted, and every entry is what the
   transaction gets when it is scored alone (but for the position in a
   default transaction id). *)
C7_BatchOrder ==
    IsBatchCall =>
        /\ Len(call.ret) = Len(call.input)
        /\ \A i \in DOMAIN call.input :
               LET entry == call.ret[i]
                   alone == Alone(call.input[i])
               IN /\ entry.transaction_id = Get(call.input[i], "id", DefaultTransactionId(i))
                  /\ IsError(entry) <=> IsError(alone)
                  /\ IsError(entry) =>
                         /\ DOMAIN entry = {"transaction_id", "error", "success"}
                         /\ entry.error = alone.error
                  /\ IsScored(entry) =>
                         /\ entry.user_id = Get(call.input[i], "user_id", None)
                         /\ [entry EXCEPT !.transaction_id = alone.transaction_id] = alone

\* three transactions, the second failing, the third named by its position
C7_Witness ==
    /\ IsBatchCall
    /\ Len(call.ret) = 3
    /\ IsScored(call.ret[1])
    /\ IsError(call.ret[2])
    /\ IsScored(call.ret[3])
    /\ call.ret[3].transaction_id = "txn_2"

LacksAmount(transaction) == "amount" \notin DOMAIN transaction

(* C8 as stated: in a batch a transaction whose 'amount' field is missing
   produces an error object at its own index. *)
C8_MissingAmountIsError ==
    \A i \in Items : LacksAmount(call.input[i]) => IsError(call.ret[i])

(* C8 as amended: a transaction whose 'amount' field is missing is scored as
   amount 0: its entry, at its own index, is the entry the same transaction
   with amount 0 gets, except that it reports amount null; so it is an error
   object only if that transaction fails for another reason, and the batch
   still has one entry per transaction. *)
C8_MissingAmountScoredAsZero ==
    IsBatchCall =>
        /\ Len(call.ret) = Len(call.input)
        /\ \A i \in Items :
               LacksAmount(call.input[i]) =>
                   LET entry == call.ret[i]
                       zero == ScoreItem(i, ("amount" :> 0) @@ call.input[i],
                                         call.user_history, call.now)
                   IN /\ IsError(entry) <=> IsError(zero)
                      /\ IsError(entry) => entry = zero
                      /\ IsScored(entry) =>
                             /\ entry.amount = None
                             /\ entry.features.transaction_amount = 0
                             /\ [entry EXCEPT !.amount = 0] = zero

\* three transactions, the second without 'amount', all three scored
C8_Witness ==
    /\ IsBatchCall
    /\ Len(call.ret) = 3
    /\ LacksAmount(call.input[2])
    /\ ~LacksAmount(call.input[1])
    /\ ~LacksAmount(call.input[3])
    /\ \A i \in 1..3 : IsScored(call.ret[i])
    /\ call.ret[2].features.transaction_amount = 0

\* the last call was a predict whose model branch raised
FellBack == call.op = "predict" /\ call.path = "fallback"

(* C9: when the predictor is in MODEL_LOADED and model inference raises during
   predict, the call returns exactly what the rule-based path gives for the
   same feature vector, and the predictor stays in MODEL_LOADED with the same
   model reference. *)
C9_InferenceErrorFallsBack ==
    /\ [](FellBack =>
              /\ call.ret = _rule_based_prediction(call.input)
              /\ model_loaded
              /\ Truthy(model))
    /\ [][FellBack' =>
              /\ model' = model
              /\ model_loaded' = model_loaded
              /\ config' = config]_vars

\* a classifier fitted on other columns is loaded, its inference raised, and
\* the call returned the rule-based result
C9_Witness ==
    /\ FellBack
    /\ model_loaded
    /\ model = "StaleClassifier"
    /\ call.ret.ok
    /\ call.ret.val.explanation.method = "rule_based"

(* C10: the predictor is in MODEL_LOADED exactly when the most recent load
   attempt (at construction or by load_model) succeeded; only load_model
   changes the state, and while the state is RULE_FALLBACK every prediction
   takes the rule-based path, the classifier not being invoked. *)
C10_StateFollowsLoads ==
    /\ [](model_loaded <=> lastLoad = "ok")
    /\ []((call.op = "predict" /\ ~model_loaded) => call.path = "rule")
    /\ []((IsBatchCall /\ ~model_loaded) =>
              \A i \in ScoredItems : IsRuleBased(call.ret[i]))
    /\ [][model_loaded' # model_loaded =>
              /\ call'.op = "load_model"
              /\ call'.ret = model_loaded']_vars

\* after a failed reload the classifier of the earlier load is still held, and
\* a prediction takes the rule-based path
C10_Witness ==
    /\ lastLoad = "failed"
    /\ model = "RandomForestClassifier"
    /\ ~model_loaded
    /\ call.op = "predict"
    /\ call.path = "rule"
    /\ call.ret.ok

\* a predict call in flight returned after entering the model branch
ReturnedFromModelBranch == predicting.pc = "done" /\ predicting.invoked # None

(* C11: when load_model runs concurrently with predict calls, every predict
   uses one model consistently: the test of self.model, the capability check
   (hasattr predict_proba) and the inference call are made on the same model
   reference.  load_model and predict take no lock, and the code violates
   this. *)
C11_OneModelPerPredict ==
    ReturnedFromModelBranch =>
        /\ predicting.checked = predicting.invoked
        /\ predicting.tested = predicting.checked

\* the step is a predict_batch call
BatchStep == call' # call /\ call'.op = "predict_batch"

(* C12: predict and predict_batch are side-effect free: in every path
   (model-based, rule-based, inference error, per-item failure) a scoring call
   leaves the model reference, the model_loaded flag, the model path and the
   configuration as they were, writes no file, and leaves the caller's list of
   transactions as it was handed in. *)
C12_ScoringHasNoEffect ==
    [][BatchStep =>
          /\ model' = model
          /\ model_loaded' = model_loaded
          /\ model_path' = model_path
          /\ config' = config
          /\ feature_extractor' = feature_extractor
          /\ files' = files
          /\ request' = request
          /\ call'.input = request]_vars

\* a batch scored with a loaded classifier whose inference raises: the first
\* item fell back to the rules, the second failed, and the model is still held
C12_Witness ==
    /\ IsBatchCall
    /\ model_loaded
    /\ model = "StaleClassifier"
    /\ Len(call.ret) = 2
    /\ IsRuleBased(call.ret[1])
    /\ IsError(call.ret[2])
    /\ request = call.input

(* C13: scoring is deterministic: with the current time held fixed and no
   load_model call in between, the same transaction scored twice with the same
   user history gets the same feature vector and the same assessment
   (is_fraud, probability, risk score, risk level, explanation, recommended
   action), whatever was scored in between; the two entries differ at most in
   a transaction id made from the position. *)
C13_SameInputSameAssessment ==
    \A i \in Items : \A j \in Items :
        call.input[i] = call.input[j] =>
            /\ ExtractedOf(i) = ExtractedOf(j)
            /\ [call.ret[j] EXCEPT !.transaction_id = call.ret[i].transaction_id] = call.ret[i]
            /\ "id" \in DOMAIN call.input[i] => call.ret[i] = call.ret[j]

\* a regular payment scored first and third, with another payment of the same
\* user (the one without an amount) scored in between
C13_Witness ==
    /\ IsBatchCall
    /\ Len(call.input) = 3
    /\ call.input[1] = call.input[3]
    /\ call.input[2] # call.input[1]
    /\ Get(call.input[2], "user_id", None) = Get(call.input[1], "user_id", None)
    /\ \A i \in 1..3 : IsScored(call.ret[i])
    /\ call.ret[1].features = call.ret[3].features
    /\ call.ret[1].recommended_action.action = "ALLOW"

\* the classifier a loaded object was saved from: save_model pickles the
\* classifier itself, the trainer pickles a dict that holds it
ClassifierIn(object) ==
    IF object = "TrainerArtifact" THEN "RandomForestClassifier" ELSE object

(* C14: save then load round-trips predictions: after a model artifact written
   by FraudPredictor.save_model or by the trainer's _save_model was loaded
   with load_model, the predictor is in MODEL_LOADED and predict returns, for
   every feature vector the classifier M of the artifact can score, the
   is_fraud and probability M gives.  The code violates it for the artifacts
   of the trainer. *)
C14_SaveLoadSamePredictions ==
    (call.op = "predict" /\ lastLoad = "ok") =>
        LET M == ClassifierIn(model)
            given == ModelBranchOn(M, M, call.input)
        IN /\ model_loaded
           /\ given.ok =>
                  /\ call.ret.ok
                  /\ call.ret.val.is_fraud = given.val.is_fraud
                  /\ call.ret.val.probability = given.val.probability

\* the trainer's load_model returned from reading the artifact now on disk
LoadedArtifact ==
    call.op = "FraudModelTrainer.load_model" /\ artifact.kind = "dict"

(* C15: the model artifact round-trips its four fields: after _save_model and
   then FraudModelTrainer.load_model the trainer holds and returns the
   classifier, the feature column names, the training timestamp and the
   training configuration that were saved.  The code violates it for the
   configuration, which load_model neither returns nor restores. *)
C15_ArtifactRoundTrip ==
    LoadedArtifact =>
        /\ call.ret.success
        /\ call.ret.model = artifact.info.model
        /\ call.ret.feature_names = artifact.info.feature_names
        /\ call.ret.trained_at = artifact.info.trained_at
        /\ trainer.best_model.model = artifact.info.model
        /\ trainer.best_model.feature_names = artifact.info.feature_names
        /\ trainer.best_model.trained_at = artifact.info.trained_at
        /\ trainer.config = artifact.info.config
        /\ "config" \in DOMAIN call.ret
        /\ call.ret.config = artifact.info.config

\* the six rules of the composite score, read off a feature vector
TriggeredFlags(f) ==
    [high_amount_deviation |-> RatGt(Get(f, "amount_deviation_ratio", Rat(1, 1)), 3, 1),
     high_hourly_velocity |-> RatGt(Get(f, "hourly_velocity", Rat(0, 1)), 5, 1),
     night_transaction |-> Get(f, "is_night_hours", 0) = 1,
     short_session_flag |-> Get(f, "short_session", 0) = 1,
     high_failure_history |-> RatGt(Get(f, "previous_failure_rate", Rat(0, 1)), 3, 10),
     new_user_high_amount |-> Get(f, "is_first_transaction", 0) = 1 /\ f.transaction_amount > 10000]

FlagWeights ==
    [high_amount_deviation |-> 30, high_hourly_velocity |-> 25, night_transaction |-> 15,
     short_session_flag |-> 20, high_failure_history |-> 25, new_user_high_amount |-> 35]

FlagOrder ==
    <<"high_amount_deviation", "high_hourly_velocity", "night_transaction",
      "short_session_flag", "high_failure_history", "new_user_high_amount">>

WeightSum(f) ==
    SumSeq([k \in 1..Len(FlagOrder) |->
               IF TriggeredFlags(f)[FlagOrder[k]] THEN FlagWeights[FlagOrder[k]] ELSE 0])

(* C16: for every feature vector, composite_risk_score = min(100, sum of the
   weights of the triggered flags): amount_deviation_ratio > 3 (+30),
   hourly_velocity > 5 (+25), night hours (+15), short session (+20), previous
   failure rate > 0.3 (+25), first transaction with amount > 100 (+35); each
   derived flag is 1 exactly when its rule triggers; and the two extractors
   compute the same derived values from the same base features. *)
C16_CompositeScore ==
    \A i \in Items :
        ExtractedOf(i).ok =>
            LET f == ExtractedOf(i).val
            IN /\ f.composite_risk_score = Min(100, WeightSum(f))
               /\ \A k \in DOMAIN FlagWeights : (f[k] = 1) <=> TriggeredFlags(f)[k]
               /\ \A k \in DOMAIN FlagWeights : f[k] \in {0, 1}
               /\ _calculate_derived_features(f)
                    = DerivedFrom(f, Get(f, "is_first_transaction", 0) = 1)
               /\ Update(f, _calculate_derived_features(f)) = f

\* all rules but the new-user rule trigger: the weights sum to 115 and the
\* score is capped at 100
C16_Witness ==
    /\ IsBatchCall
    /\ \E i \in Items :
           /\ ExtractedOf(i).ok
           /\ WeightSum(ExtractedOf(i).val) = 115
           /\ ExtractedOf(i).val.composite_risk_score = 100
           /\ ExtractedOf(i).val.new_user_high_amount = 0
           /\ feature_extractor = "FraudFeatureExtractor"

\* the two severity tiers of the rules that have two
TierPairs ==
    {<<"EXTREME_AMOUNT_DEVIATION", "HIGH_AMOUNT_DEVIATION">>,
     <<"EXTREME_TRANSACTION_VELOCITY", "HIGH_TRANSACTION_VELOCITY">>}

TagSet(explanation) == {explanation.risk_factors[k] : k \in DOMAIN explanation.risk_factors}

(* C17: in RULE_FALLBACK the rule score reported in the explanation
   (risk_score) lies in 0..100, the probability is that rule score / 100, each
   rule contributes at most one risk-factor tag, and rules_applied is the
   number of tags.  The code violates the first two: it reports the sum of the
   weights uncapped. *)
C17_RuleScoreBounded ==
    \A i \in ScoredItems :
        (~model_loaded /\ IsRuleBased(call.ret[i])) =>
            LET explanation == call.ret[i].explanation
            IN /\ explanation.rules_applied = Len(explanation.risk_factors)
               /\ Cardinality(TagSet(explanation)) = Len(explanation.risk_factors)
               /\ \A pair \in TierPairs : ~({pair[1], pair[2]} \subseteq TagSet(explanation))
               /\ explanation.risk_score \in 0..100
               /\ call.ret[i].prediction.probability = explanation.risk_score

\* the tags by which the fallback reports each rule of the composite score
RuleTags ==
    [high_amount_deviation |-> {"EXTREME_AMOUNT_DEVIATION", "HIGH_AMOUNT_DEVIATION"},
     high_hourly_velocity |-> {"EXTREME_TRANSACTION_VELOCITY", "HIGH_TRANSACTION_VELOCITY"},
     night_transaction |-> {"NIGHT_TRANSACTION"},
     short_session_flag |-> {"SHORT_SESSION"},
     high_failure_history |-> {"HIGH_FAILURE_HISTORY"},
     new_user_high_amount |-> {"NEW_USER_HIGH_AMOUNT"}]

(* C18: the rule-based fallback applies the rules of the composite risk score
   (same conditions, thresholds and weights): for every extracted feature
   vector a rule fires in the fallback exactly when the corresponding derived
   flag is 1, and the fallback probability times 100 is the vector's
   composite_risk_score.  The code violates it: the fallback has its own
   weights and its own failure-rate threshold. *)
C18_FallbackMatchesComposite ==
    \A i \in ScoredItems :
        (~model_loaded /\ IsRuleBased(call.ret[i])) =>
            LET f == call.ret[i].features
                tags == TagSet(call.ret[i].explanation)
            IN /\ \A k \in DOMAIN RuleTags : (f[k] = 1) <=> (RuleTags[k] \cap tags # {})
               /\ call.ret[i].prediction.probability = f.composite_risk_score

\* the history predict_batch looks up for item i of the last batch
HistoryOf(i) == HistoryFor(call.input[i], call.user_history)

\* the amounts of the records of a history
HistoryAmounts(history) == MapAmount(SelectSeq(history, HasAmount))

(* C19: for a first-time user (empty or absent history) feature extraction
   sets amount_deviation_ratio to the sentinel 10; with a non-empty history
   whose mean amount is positive it is current_amount / historical_mean; in
   FraudFeatureExtractor.extract_features and in the basic extractor alike.
   The code violates the first part in FraudFeatureExtractor, which leaves the
   ratio out for a user without history. *)
C19_DeviationSentinel ==
    \A i \in Items :
        ExtractedOf(i).ok =>
            LET f == ExtractedOf(i).val
                amounts == HistoryAmounts(HistoryOf(i))
                current_amount == Get(call.input[i], "amount", 0)
            \* current / (sum / count), as the fraction current * count / sum
            IN /\ (amounts # <<>> /\ SumSeq(amounts) > 0) =>
                      /\ "amount_deviation_ratio" \in DOMAIN f
                      /\ f.amount_deviation_ratio
                           = Rat(current_amount * Len(amounts), SumSeq(amounts))
               /\ HistoryOf(i) = <<>> =>
                      /\ "amount_deviation_ratio" \in DOMAIN f
                      /\ f.amount_deviation_ratio = Rat(10, 1)

\* the transaction's timestamp is a string
HasStringTimestamp(transaction) ==
    "timestamp" \in DOMAIN transaction /\ transaction["timestamp"].kind \in {"iso", "text"}

(* C20: feature extraction fails open on timestamps: for a malformed timestamp
   string it does not raise and computes the temporal features from the
   current time, and a well-formed ISO string is accepted, by both extractors.
   The code violates it: FraudFeatureExtractor raises on every string, the
   basic extractor on a malformed one. *)
C20_TimestampFailsOpen ==
    \A i \in Items :
        HasStringTimestamp(call.input[i]) =>
            LET timestamp == call.input[i]["timestamp"]
                hour == IF timestamp.kind = "iso" THEN timestamp.hour ELSE call.now.hour
            \* a history record without an amount fails the extraction otherwise
            IN (\A k \in DOMAIN HistoryOf(i) : HasAmount(HistoryOf(i)[k])) =>
                   /\ ExtractedOf(i).ok
                   /\ ExtractedOf(i).val.hour_of_day = hour
                   /\ IsScored(call.ret[i]) \/ ~HasThreshold

\* what FraudFeatureExtractor.extract_features gives for item i of the batch
FullExtractionOf(i) == extract_features(call.input[i], HistoryOf(i), call.now)

(* C21: extract_features never raises because an optional field is missing:
   whichever of amount, timestamp, status or session_duration is absent from
   the transaction or from every history record, it returns a feature vector
   with the defaults substituted (amount 0, session_duration 0, the current
   time).  The code violates it for a history none of whose records has an
   amount (or a status). *)
C21_MissingFieldsDefaulted ==
    \A i \in Items :
        ~HasStringTimestamp(call.input[i]) =>
            /\ FullExtractionOf(i).ok
            /\ FullExtractionOf(i).val.transaction_amount = Get(call.input[i], "amount", 0)
            /\ FullExtractionOf(i).val.session_duration
                 = Get(call.input[i], "session_duration", 0)
            /\ FullExtractionOf(i).val.hour_of_day
                 = Get(call.input[i], "timestamp", call.now).hour

RiskLevels == {"LOW", "MEDIUM", "HIGH", "CRITICAL"}

(* C22: every successfully scored result, with or without a loaded model,
   carries an explanation record containing factors, risk_factors and
   contributions, together with is_fraud, probability, the risk score, a risk
   level among LOW, MEDIUM, HIGH, CRITICAL and a recommended action with
   action, reason and steps.  The code violates it whenever the rules score
   the transaction: their explanation has neither factors nor contributions. *)
C22_ExplanationComplete ==
    \A i \in ScoredItems :
        LET entry == call.ret[i]
        IN /\ {"factors", "risk_factors", "contributions"} \subseteq DOMAIN entry.explanation
           /\ {"is_fraud", "probability"} \subseteq DOMAIN entry.prediction
           /\ "score" \in DOMAIN entry.risk_assessment
           /\ entry.risk_assessment.level \in RiskLevels
           /\ {"action", "reason", "steps"} \subseteq DOMAIN entry.recommended_action

\* probabilities (in percent) an explanation is asked for
ExplainedProbabilities == {0, 30, 50, 70, 90, 100}

\* the flags of a feature vector that explain_prediction reads, in its order
ExplainedFlags ==
    <<"high_amount_deviation", "high_hourly_velocity", "night_transaction",
      "short_session_flag", "high_failure_history", "new_user_high_amount",
      "device_anomaly">>

RaisedFlags(f) == SelectSeq(ExplainedFlags, LAMBDA k : Get(f, k, 0) = 1)

(* C23: explain_prediction gives one factor, one risk-factor tag and one
   contribution per triggered flag, in the same order; with at least one flag
   triggered each contribution is its weight over the sum of the triggered
   weights times 100, so they sum to 100; and the explanation always includes
   a qualitative summary, also for probability 0.  The code violates the last
   part: for probability 0 no summary is written. *)
C23_ExplanationShape ==
    \A i \in Items : \A probability \in ExplainedProbabilities :
        ExtractedOf(i).ok =>
            LET f == ExtractedOf(i).val
                e == explain_prediction(f, probability)
                n == Len(RaisedFlags(f))
            IN /\ Len(e.factors) = n
               /\ Len(e.risk_factors) = n
               /\ Len(e.contributions) = n
               /\ n > 0 => SumSeq([k \in 1..n |-> e.contributions[k].num])
                             = 100 * e.contributions[1].den
               /\ "summary" \in DOMAIN e

\* the last call on the detector was detect, and it raised the not-trained error
DetectSaidNotTrained ==
    call.op = "detect" /\ ~call.ret.ok /\ call.ret.val = NotTrained.val

(* C24: detect fails with the not-trained error exactly when no train call
   has completed: before any training every detect raises it, and once a
   train has returned (called directly, or by update_model on an unfitted
   detector) no detect raises it. *)
C24_NotTrainedUntilTrained ==
    call.op = "detect" => (DetectSaidNotTrained <=> completed_trains = {})

\* a detect that returned scores after a train had completed
C24_Witness ==
    /\ call.op = "detect"
    /\ call.ret.ok
    /\ completed_trains # {}
    /\ detector.is_fitted

\* what a trained detector says of one row, three ways
FlaggedByDetect(row) == detect(detector, <<row>>).val.anomalies[1] = 1

FlaggedByExplain(row) == explain_anomaly(detector, <<row>>).val # <<>>

FlaggedByLevel(row) ==
    calculate_risk_level(detector, ScoreSample(detector.scaler, row)).val
        \in {"MEDIUM", "HIGH", "CRITICAL"}

(* C25: after training, for every contamination the detector was built with
   and every point, detect flags the point exactly when its score is below
   the threshold train stored (the 10th percentile of the training scores),
   so detect, explain_anomaly and calculate_risk_level agree on every point.
   The code violates it for a contamination other than 0.1: detect follows the
   forest's own offset, the other two the stored threshold. *)
C25_DetectFollowsThreshold ==
    (call.op = "detect" /\ call.ret.ok) =>
        \A i \in DOMAIN call.input :
            /\ (call.ret.val.anomalies[i] = 1)
                 <=> (100 * call.ret.val.scores[i] < detector.threshold)
            /\ FlaggedByDetect(call.input[i]) <=> FlaggedByExplain(call.input[i])
            /\ FlaggedByExplain(call.input[i]) <=> FlaggedByLevel(call.input[i])

(* C26: update_model on a trained detector changes nothing of the detector
   (model, scaler, threshold, feature_columns, is_fitted), so detect gives the
   same results afterwards; on an untrained detector it is a full train. *)
C26_UpdateKeepsTrainedDetector ==
    [][call'.op = "update_model" =>
           IF detector.is_fitted
           THEN /\ detector' = detector
                /\ \A features \in DetectArrays :
                       detect(detector', features) = detect(detector, features)
           ELSE detector' = AnomalyDetectorTrain(detector, call'.input).state]_vars

\* update_model returned on a detector trained on other data than it was given
C26_Witness ==
    /\ call.op = "update_model"
    /\ call.ret.ok
    /\ call.input \notin completed_trains
    /\ completed_trains # {}
    /\ detector.is_fitted

\* the address item i of the batch carries, and the item without it
ItemAddress(i) == Get(call.input[i], "ip_address", NoAddress)

WithoutAddress(transaction) ==
    [k \in DOMAIN transaction \ {"ip_address"} |-> transaction[k]]

\* the features hold of the address only a prefix of at most two parts, which
\* is not the address itself, and a bucket number
HoldsOnlyPrefixAndBucket(features, ip_address) ==
    /\ features.ip_prefix # ip_address
    /\ Len(features.ip_prefix) <= 2
    /\ features.ip_hash \in 0..9999

(* C27: the raw IP address is never stored in the feature vector: for every
   ip_address (IPv4, IPv6 or any other string) no feature value equals the
   full address; the vector holds only a prefix of at most the first two
   octets and a hash bucket in 0..9999, and so do the sanitized features of a
   batch result.  The code violates it for an address without two dots before
   its end, such as an IPv6 address: its prefix is the whole address. *)
C27_AddressNotStored ==
    \A i \in Items :
        ItemAddress(i) # NoAddress =>
            /\ FullExtractionOf(i).ok =>
                   LET features == FullExtractionOf(i).val
                       plain == extract_features(WithoutAddress(call.input[i]),
                                                 HistoryOf(i), call.now).val
                   IN /\ HoldsOnlyPrefixAndBucket(features, ItemAddress(i))
                      /\ DOMAIN features \ DOMAIN plain = {"ip_prefix", "ip_hash"}
                      /\ \A k \in DOMAIN plain : features[k] = plain[k]
            /\ (IsScored(call.ret[i]) /\ "ip_prefix" \in DOMAIN call.ret[i].features) =>
                   HoldsOnlyPrefixAndBucket(call.ret[i].features, ItemAddress(i))

\* the estimator best_model['model'] refers to, as it is now
BestEstimatorFit == fraud_trainer.models[fraud_trainer.best_model[1].model]

(* C28: after any sequence of train calls best_model describes one training:
   best_model['model'] is the fitted classifier that achieved
   best_model['metrics'], so a later train of the same model type with a lower
   ROC-AUC changes neither the recorded metrics nor the classifier held as
   best.  The code violates it: best_model['model'] is the estimator object of
   self.models, and the later train fits that same object again. *)
C28_BestModelIsOneTraining ==
    fraud_trainer.best_model # <<>> =>
        LET best == fraud_trainer.best_model[1]
        IN /\ best.model = best.model_type
           /\ BestEstimatorFit # "unfitted"
           /\ RocAuc[best.model_type][BestEstimatorFit] = best.metrics.roc_auc

(* C29: whenever train_all_models returns success, the model it writes to
   best_model_path is of the type it reports as best_model, was trained in
   that call, and has the ROC-AUC it reports as best_roc_auc, also when train
   or train_all_models was called on the same trainer before.  The code
   violates it after an earlier training with a higher ROC-AUC: the file gets
   the estimator of the trainer's older best_model. *)
C29_BestFileIsReportedModel ==
    (call.op = "train_all_models" /\ call.ret.success) =>
        /\ model_store[call.ret.best_model_path] # <<>>
        /\ LET written == model_store[call.ret.best_model_path][1].model
           IN /\ written.estimator = call.ret.best_model
              /\ written.fitted_on = call.input
              /\ RocAuc[written.estimator][written.fitted_on] = call.ret.best_roc_auc

(* C30: the feature matrix X that prepare_training_data returns never
   contains the label: the labels are returned only as y and no column of X,
   in particular no is_fraud column, carries them.  The code violates it when
   the trainer has its feature extractor and labels are given. *)
C30_NoLabelInFeatures ==
    (call.op = "prepare_training_data" /\ call.ret.ok) =>
        \A i \in DOMAIN call.ret.val.X : "is_fraud" \notin DOMAIN call.ret.val.X[i]

====
